---- MODULE Spec2Model ----
(***************************************************************************)
(* Langact: indexing of a UI fiber tree into an action registry, the       *)
(* debounced reindexing scheduler (Langact component) and the command      *)
(* resolver (CommandBar, remote strategy).                                 *)
(***************************************************************************)
EXTENDS Integers, Sequences, FiniteSets, TLC

(***************************************************************************)
(* Bounds of the model.                                                    *)
(***************************************************************************)
MaxNodes == 3
MaxTimers == 3
MaxPasses == 3

(***************************************************************************)
(* JavaScript values, tagged by their typeof.                              *)
(***************************************************************************)
Undefined == [t |-> "undefined"]
Null == [t |-> "null"]
Str(s) == [t |-> "string", v |-> s]
Num(n) == [t |-> "number", v |-> n]
Arr(items) == [t |-> "array", v |-> items]
Obj(entries) == [t |-> "object", v |-> entries]
\* A function value: its name, the lexemes of its source text (toString), and
\* whether a call of it raises.
Fn(name, src, raises) == [t |-> "function", name |-> name, src |-> src, raises |-> raises]

EmptyMap == [k \in {} |-> k]

RECURSIVE Join(_, _)
\* Array.prototype.join over strings
Join(parts, sep) ==
    IF Len(parts) = 0 THEN ""
    ELSE IF Len(parts) = 1 THEN parts[1]
    ELSE parts[1] \o sep \o Join(Tail(parts), sep)

\* JavaScript truthiness
Truthy(val) ==
    CASE val.t = "undefined" -> FALSE
      [] val.t = "null" -> FALSE
      [] val.t = "string" -> val.v # ""
      [] val.t = "number" -> val.v # 0
      [] OTHER -> TRUE

RECURSIVE ToJsString(_)
\* String(value), as used by template literals and property keys
ToJsString(val) ==
    CASE val.t = "undefined" -> "undefined"
      [] val.t = "null" -> "null"
      [] val.t = "string" -> val.v
      [] val.t = "number" -> ToString(val.v)
      [] val.t = "array" ->
            Join([i \in 1..Len(val.v) |->
                    IF val.v[i].t \in {"undefined", "null"} THEN ""
                    ELSE ToJsString(val.v[i])], ",")
      [] val.t = "function" -> Join(val.src, "")
      [] OTHER -> "[object Object]"

(***************************************************************************)
(* Fiber nodes.  A fiber tree is [root, node]: node[i] is the record of    *)
(* node i, child and sibling are node indices, 0 standing for null; root   *)
(* 0 is the absent tree.  A prop set is absent or an ordered list of       *)
(* [k, v] entries (the insertion order Object.keys follows).               *)
(***************************************************************************)
NoProps == [present |-> FALSE, entries |-> <<>>]
Props(entries) == [present |-> TRUE, entries |-> entries]

TagType(tag) == [kind |-> "string", v |-> tag]
FnType(displayName, name) == [kind |-> "function", displayName |-> displayName, name |-> name]

NoFiber == [root |-> 0, node |-> <<>>]

\* obj[key] on a prop set: the last entry under the key, undefined if none
RECURSIVE PropGet(_, _)
PropGet(entries, key) ==
    IF Len(entries) = 0 THEN Undefined
    ELSE IF entries[Len(entries)].k = key THEN entries[Len(entries)].v
    ELSE PropGet(SubSeq(entries, 1, Len(entries) - 1), key)

\* The prop keys of the model and the ones for which key.startsWith("on") holds
OnPrefixedKeys == {"onClick", "onChange", "once"}
StartsWithOn(key) == key \in OnPrefixedKeys

\* node.props || node.memoizedProps || node.pendingProps || {}
PropsSource(node) ==
    IF node.props.present THEN node.props.entries
    ELSE IF node.memoizedProps.present THEN node.memoizedProps.entries
    ELSE IF node.pendingProps.present THEN node.pendingProps.entries
    ELSE <<>>

\* getDisplayName of createActionRegistry
ExtractorDisplayName(node) ==
    CASE node.elementType.kind = "string" -> node.elementType.v
      [] node.elementType.kind = "function" ->
            IF node.elementType.displayName # "" THEN node.elementType.displayName
            ELSE IF node.elementType.name # "" THEN node.elementType.name
            ELSE "Component"
      [] OTHER -> "Unknown"

(***************************************************************************)
(* Action Extractor: createActionRegistry.                                 *)
(***************************************************************************)
IdentifyingKeys == <<"id", "num", "index", "value", "name", "className">>

\* The forEach over IdentifyingKeys: the props that are not undefined, in order
IdentifyingProps(propsSource) ==
    LET Keep(key) == PropGet(propsSource, key).t # "undefined"
    IN  [i \in 1..Len(SelectSeq(IdentifyingKeys, Keep)) |->
            [k |-> SelectSeq(IdentifyingKeys, Keep)[i],
             v |-> PropGet(propsSource, SelectSeq(IdentifyingKeys, Keep)[i])]]

\* The semantic identifier derived from identifyingProps and the instance number
SemanticId(identifyingProps, instanceNumber) ==
    IF PropGet(identifyingProps, "num").t # "undefined"
      THEN "[num=" \o ToJsString(PropGet(identifyingProps, "num")) \o "]"
    ELSE IF PropGet(identifyingProps, "index").t # "undefined"
      THEN "[index=" \o ToJsString(PropGet(identifyingProps, "index")) \o "]"
    ELSE IF Truthy(PropGet(identifyingProps, "id"))
      THEN "[id=" \o ToJsString(PropGet(identifyingProps, "id")) \o "]"
    ELSE IF Truthy(PropGet(identifyingProps, "key"))
      THEN "[key=" \o ToJsString(PropGet(identifyingProps, "key")) \o "]"
    ELSE IF instanceNumber > 0
      THEN "[instance=" \o ToString(instanceNumber) \o "]"
    ELSE ""

\* `action_${n}`
ActionKey(n) == "action_" \o ToString(n)

\* Mutant of NextActionId: the counter is read and never incremented
NextActionIdNoIncrement(st) == [key |-> ActionKey(st.actionId), next |-> st.actionId]

\* The id given to the next action, by post-increment of the pass counter
NextActionId(st) == [key |-> ActionKey(st.actionId), next |-> st.actionId + 1]

\* Mutant of InstanceIdentifier: every occurrence gets the bare name
InstanceIdentifierBare(componentName, instanceNumber) == componentName

\* The instance label of a node: name, or name[n] from the second occurrence on
InstanceIdentifier(componentName, instanceNumber) ==
    IF instanceNumber > 0
      THEN componentName \o "[" \o ToString(instanceNumber) \o "]"
    ELSE componentName

\* The description synthesized for one handler
Description(propKey, componentName, semanticId, currentPath) ==
    propKey \o " handler on " \o componentName
      \o (IF semanticId # "" THEN " " \o semanticId ELSE "")
      \o " at " \o Join(currentPath, " > ")

\* One registry entry
RegistryEntry(functionId, componentName, propKey, currentPath, semanticId, identifyingProps, propValue) ==
    [id |-> functionId,
     component |-> componentName,
     event |-> propKey,
     path |-> Join(currentPath, " > "),
     semanticId |-> semanticId,
     identifyingProps |-> identifyingProps,
     description |-> Description(propKey, componentName, semanticId, currentPath),
     execute |-> propValue,
     metadata |-> [functionName |-> IF propValue.name # "" THEN propValue.name
                                    ELSE "anonymous",
                   toString |-> propValue.src]]

RECURSIVE ExtractHandlers(_, _, _, _)
\* Object.keys(propsSource).forEach: one action per on-prefixed function prop.
\* st is the pass state [reg, actionId, counts] with the trace of the calls,
\* visited; ctx the node's naming context.
ExtractHandlers(entries, i, ctx, st) ==
    IF i > Len(entries) THEN st
    ELSE IF StartsWithOn(entries[i].k) /\ entries[i].v.t = "function"
      THEN ExtractHandlers(entries, i + 1, ctx,
             [st EXCEPT
                !.reg = (NextActionId(st).key :>
                           RegistryEntry(NextActionId(st).key, ctx.componentName,
                                         entries[i].k, ctx.currentPath, ctx.semanticId,
                                         ctx.identifyingProps, entries[i].v)) @@ st.reg,
                !.actionId = NextActionId(st).next])
    ELSE ExtractHandlers(entries, i + 1, ctx, st)

RECURSIVE traverseAndExtractActions(_, _, _, _)
RECURSIVE TraverseChain(_, _, _, _)
\* traverseAndExtractActions(node, path) on node n of the fiber
traverseAndExtractActions(fiber, n, path, st) ==
    IF n = 0 THEN st
    ELSE
      LET node == fiber.node[n]
          componentName == ExtractorDisplayName(node)
          componentKey == Join(path, ">") \o ">" \o componentName
          count == (IF componentKey \in DOMAIN st.counts
                      THEN st.counts[componentKey] ELSE 0) + 1
          instanceNumber == count - 1
          currentPath == Append(path, InstanceIdentifier(componentName, instanceNumber))
          propsSource == PropsSource(node)
          identifyingProps == IdentifyingProps(propsSource)
          ctx == [componentName |-> componentName,
                  currentPath |-> currentPath,
                  semanticId |-> SemanticId(identifyingProps, instanceNumber),
                  identifyingProps |-> identifyingProps]
          counted == [st EXCEPT !.counts = (componentKey :> count) @@ st.counts,
                                !.visited = Append(@, [node |-> n, path |-> currentPath])]
      IN  TraverseChain(fiber, node.child, currentPath,
                        ExtractHandlers(propsSource, 1, ctx, counted))

\* The while loop over the child -> sibling chain starting at node c
TraverseChain(fiber, c, path, st) ==
    IF c = 0 THEN st
    ELSE TraverseChain(fiber, fiber.node[c].sibling, path,
                       traverseAndExtractActions(fiber, c, path, st))

\* createActionRegistry(fiberNode): a fresh registry, counter and counts per pass
createActionRegistry(fiber) ==
    traverseAndExtractActions(fiber, fiber.root, <<>>,
        [reg |-> EmptyMap, actionId |-> 0, counts |-> EmptyMap, visited |-> <<>>]).reg

\* The currentPath of every call of traverseAndExtractActions in one pass of
\* createActionRegistry, in the order of the calls
VisitedPaths(fiber) ==
    traverseAndExtractActions(fiber, fiber.root, <<>>,
        [reg |-> EmptyMap, actionId |-> 0, counts |-> EmptyMap, visited |-> <<>>]).visited

(***************************************************************************)
(* LLM Action Map Builder: createLLMActionMap.                             *)
(***************************************************************************)
\* Positions of a lexeme in a source text
Positions(src, lexeme) == {i \in 1..Len(src) : src[i] = lexeme}

Min(S) == CHOOSE x \in S : \A y \in S : x <= y

\* functionString.match(/\(([^)]*)\)/): the lexemes between the first "(" that
\* has a ")" after it and the first ")" after that "("; no match without one
ParamMatch(src) ==
    LET opens == {i \in Positions(src, "(") : \E j \in Positions(src, ")") : j > i}
    IN  IF opens = {} THEN [matched |-> FALSE, group |-> <<>>]
        ELSE LET o == Min(opens)
                 c == Min({j \in Positions(src, ")") : j > o})
             IN  [matched |-> TRUE, group |-> SubSeq(src, o + 1, c - 1)]

RECURSIVE TrimLexemes(_)
\* String.prototype.trim on a lexeme sequence, blanks being the lexeme " "
TrimLexemes(src) ==
    IF Len(src) = 0 THEN src
    ELSE IF src[1] = " " THEN TrimLexemes(Tail(src))
    ELSE IF src[Len(src)] = " " THEN TrimLexemes(SubSeq(src, 1, Len(src) - 1))
    ELSE src

RECURSIVE SplitLexemes(_, _)
\* String.prototype.split(sep) on a lexeme sequence
SplitLexemes(src, sep) ==
    IF Positions(src, sep) = {} THEN <<src>>
    ELSE <<SubSeq(src, 1, Min(Positions(src, sep)) - 1)>>
           \o SplitLexemes(SubSeq(src, Min(Positions(src, sep)) + 1, Len(src)), sep)

\* One entry of the LLM action map
LLMEntry(action) ==
    LET m == ParamMatch(action.metadata.toString)
        paramString == IF m.matched THEN TrimLexemes(m.group) ELSE <<>>
        split == SplitLexemes(paramString, ",")
    IN  [description |-> action.description,
         component |-> action.component,
         event |-> action.event,
         path |-> action.path,
         semanticId |-> action.semanticId,
         identifyingProps |-> action.identifyingProps,
         parameters |-> IF Len(paramString) > 0
                          THEN [i \in 1..Len(split) |-> Join(TrimLexemes(split[i]), "")]
                        ELSE <<>>,
         signature |-> action.metadata.functionName \o "(" \o Join(paramString, "") \o ")"]

\* createLLMActionMap(actionRegistry)
createLLMActionMap(actionRegistry) ==
    [actionId \in DOMAIN actionRegistry |-> LLMEntry(actionRegistry[actionId])]

(***************************************************************************)
(* Tree Walker: fiberToComponentTree and createSemanticStructure.          *)
(***************************************************************************)
\* getDisplayName of fiberToComponentTree
WalkerDisplayName(node) ==
    CASE node.elementType.kind = "string" -> node.elementType.v
      [] node.elementType.kind = "function" ->
            IF node.elementType.displayName # "" THEN node.elementType.displayName
            ELSE IF node.elementType.name # "" THEN node.elementType.name
            ELSE "Component"
      [] node.elementType.kind = "object" /\ node.elementType.render.present ->
            IF node.elementType.render.displayName # ""
              THEN node.elementType.render.displayName
            ELSE IF node.elementType.render.name # "" THEN node.elementType.render.name
            ELSE "ComplexComponent"
      [] OTHER -> "Unknown"

\* The value stored for one prop: a descriptor for a function or an object,
\* the value itself for a primitive
NormalizedValue(value) ==
    CASE value.t = "function" ->
            [t |-> "descriptor", type |-> "function",
             name |-> IF value.name # "" THEN value.name ELSE "anonymous",
             text |-> value.src, keys |-> <<>>]
      [] value.t = "array" ->
            [t |-> "descriptor", type |-> "object", name |-> "Array", text |-> <<>>,
             keys |-> [i \in 1..Len(value.v) |-> ToString(i - 1)]]
      [] value.t = "object" ->
            [t |-> "descriptor", type |-> "object", name |-> "Object", text |-> <<>>,
             keys |-> [i \in 1..Len(value.v) |-> value.v[i].k]]
      [] OTHER -> value

AbsentTree == [present |-> FALSE]

RECURSIVE fiberToComponentTree(_, _)
RECURSIVE WalkChain(_, _)
\* fiberToComponentTree(fiberNode) on node n of the fiber
fiberToComponentTree(fiber, n) ==
    IF n = 0 THEN AbsentTree
    ELSE [present |-> TRUE,
          name |-> WalkerDisplayName(fiber.node[n]),
          props |-> [i \in 1..Len(PropsSource(fiber.node[n])) |->
                       [k |-> PropsSource(fiber.node[n])[i].k,
                        v |-> NormalizedValue(PropsSource(fiber.node[n])[i].v)]],
          children |-> WalkChain(fiber, fiber.node[n].child)]

\* Mutant of WalkChain: the loop stops after the first child
WalkChainFirstOnly(fiber, c) ==
    IF c = 0 THEN <<>>
    ELSE IF fiberToComponentTree(fiber, c).present
      THEN <<fiberToComponentTree(fiber, c)>> ELSE <<>>

\* The while loop collecting the converted nodes of a child -> sibling chain
WalkChain(fiber, c) ==
    IF c = 0 THEN <<>>
    ELSE (IF fiberToComponentTree(fiber, c).present
            THEN <<fiberToComponentTree(fiber, c)>> ELSE <<>>)
         \o WalkChain(fiber, fiber.node[c].sibling)

SemanticKeys == {"id", "type", "value", "placeholder", "href"}

AbsentSemantic == [present |-> FALSE]

RECURSIVE createSemanticStructure(_)
\* createSemanticStructure(componentTree).  attrs holds text, className and the
\* whitelisted props in the order they are assigned; the actions and children
\* keys exist in the result iff their lists are non-empty.
createSemanticStructure(componentTree) ==
    IF ~componentTree.present THEN AbsentSemantic
    ELSE
      LET props == componentTree.props
          IsAction(e) == /\ StartsWithOn(e.k)
                         /\ Truthy(e.v)
                         /\ e.v.t = "descriptor"
                         /\ e.v.type = "function"
          IsListed(e) == e.k \in SemanticKeys
          kids == [i \in 1..Len(componentTree.children) |->
                     createSemanticStructure(componentTree.children[i])]
          IsPresent(sem) == sem.present
      IN  [present |-> TRUE,
           component |-> componentTree.name,
           attrs |->
             (IF Truthy(PropGet(props, "children")) /\ PropGet(props, "children").t = "string"
                THEN <<[k |-> "text", v |-> PropGet(props, "children")]>> ELSE <<>>)
             \o (IF Truthy(PropGet(props, "className"))
                   THEN <<[k |-> "className", v |-> PropGet(props, "className")]>> ELSE <<>>)
             \o SelectSeq(props, IsListed),
           actions |-> [i \in 1..Len(SelectSeq(props, IsAction)) |->
                          [event |-> SelectSeq(props, IsAction)[i].k,
                           handler |-> SelectSeq(props, IsAction)[i].v.name,
                           path |-> "props." \o SelectSeq(props, IsAction)[i].k]],
           children |-> SelectSeq(kids, IsPresent)]

(***************************************************************************)
(* The fiber trees the model ranges over.                                  *)
(***************************************************************************)
\* Handlers found in the UI: a named two-parameter arrow function, an
\* anonymous closure, and a handler whose call raises.
handleAdd == Fn("handleAdd", <<"(", "title", ",", " ", "done", ")", " ", "=>", " ", "{", "}">>, FALSE)
onDeleteClosure == Fn("", <<"(", ")", " ", "=>", " ", "onDelete", "(", "task.id", ")">>, FALSE)
boom == Fn("boom", <<"function", " ", "boom", "(", ")", " ", "{", "throw", "}">>, TRUE)

\* The kinds of node: element type and the three prop sets
DivNode ==
    [elementType |-> TagType("div"), props |-> NoProps,
     memoizedProps |-> Props(<<[k |-> "className", v |-> Str("tasks-list")]>>),
     pendingProps |-> Props(<<[k |-> "className", v |-> Str("tasks-list")]>>)]
ButtonNode ==
    [elementType |-> TagType("button"), props |-> NoProps,
     memoizedProps |-> Props(<<[k |-> "onClick", v |-> onDeleteClosure],
                               [k |-> "className", v |-> Str("task-delete")]>>),
     pendingProps |-> NoProps]
RowNode ==
    [elementType |-> FnType("", "Row"), props |-> NoProps,
     memoizedProps |-> Props(<<[k |-> "id", v |-> Str("r")],
                               [k |-> "onClick", v |-> handleAdd],
                               [k |-> "onChange", v |-> boom]>>),
     pendingProps |-> NoProps]
FormNode ==
    [elementType |-> TagType("form"), props |-> NoProps,
     memoizedProps |-> Props(<<[k |-> "once", v |-> Str("yes")],
                               [k |-> "onChange", v |-> boom],
                               [k |-> "children", v |-> Str("Send")]>>),
     pendingProps |-> NoProps]
ItemNode ==
    [elementType |-> TagType("li"), props |-> NoProps,
     memoizedProps |-> Props(<<[k |-> "key", v |-> Str("k7")],
                               [k |-> "onClick", v |-> onDeleteClosure]>>),
     pendingProps |-> NoProps]
StaleNode ==
    [elementType |-> TagType("input"), props |-> Props(<<>>),
     memoizedProps |-> Props(<<[k |-> "index", v |-> Num(0)],
                               [k |-> "onChange", v |-> handleAdd]>>),
     pendingProps |-> NoProps]
NodeKinds == {DivNode, ButtonNode, RowNode, FormNode, ItemNode, StaleNode}

\* Parent maps of the trees of n nodes: node 1 is the root, every other node
\* hangs under an earlier one
Shapes(n) == {par \in [1..n -> 0..n] : par[1] = 0 /\ \A i \in 2..n : par[i] \in 1..(i - 1)}

\* The fiber tree with the given parent map and node kinds: a node's child is
\* its first child, its sibling the next child of its parent
MkFiber(par, kinds) ==
    LET n == Len(par)
        Later(S) == IF S = {} THEN 0 ELSE Min(S)
    IN  [root |-> 1,
         node |-> [i \in 1..n |->
            [elementType |-> kinds[i].elementType,
             props |-> kinds[i].props,
             memoizedProps |-> kinds[i].memoizedProps,
             pendingProps |-> kinds[i].pendingProps,
             child |-> Later({j \in 1..n : par[j] = i}),
             sibling |-> Later({j \in (i + 1)..n : par[j] = par[i]})]]]

Fibers == UNION {{MkFiber(par, kinds) : par \in Shapes(n), kinds \in [1..n -> NodeKinds]} : n \in 1..MaxNodes}

\* A component whose displayName ends in a bracketed index
IndexedRowNode ==
    [elementType |-> FnType("Row[1]", "IndexedRow"), props |-> NoProps,
     memoizedProps |-> Props(<<[k |-> "onClick", v |-> onDeleteClosure]>>),
     pendingProps |-> NoProps]

\* Trees of rows under a div and under two divs, the rows' names free
NamedKinds == {DivNode, RowNode, IndexedRowNode}
NamedFibers ==
    {MkFiber(<<0, 1, 1, 1>>, <<DivNode, k2, k3, k4>>) : k2 \in NamedKinds, k3 \in NamedKinds, k4 \in NamedKinds}
      \cup {MkFiber(<<0, 1, 1, 2, 3>>, <<DivNode, DivNode, DivNode, k4, k5>>) : k4 \in NamedKinds, k5 \in NamedKinds}
      \cup {MkFiber(<<0, 1, 2, 2, 2>>, <<DivNode, k2, k3, k4, RowNode>>) : k2 \in NamedKinds, k3 \in NamedKinds, k4 \in NamedKinds}

\* The number of on-prefixed function props of a fiber tree's nodes
HandlerCount(fiber) ==
    LET IsHandler(e) == StartsWithOn(e.k) /\ e.v.t = "function"
        RECURSIVE Sum(_)
        Sum(i) == IF i = 0 THEN 0
                  ELSE Len(SelectSeq(PropsSource(fiber.node[i]), IsHandler)) + Sum(i - 1)
    IN  Sum(Len(fiber.node))

(***************************************************************************)
(* Command Resolver, remote strategy: the response content as a sequence   *)
(* of lexemes, JSON.parse over it, and the resolution of the action id.    *)
(***************************************************************************)
Quote == "\""

\* The number lexemes of the model and the numbers they denote
NumberLexemes == {"0", "5"}
NumberOf(lexeme) == IF lexeme = "0" THEN 0 ELSE 5

\* A string of a parsed response: its text and the lexemes it is made of
JsonStr(lexemes) == [t |-> "string", v |-> Join(lexemes, ""), chars |-> lexemes]

ParseFail == [ok |-> FALSE, val |-> Undefined, next |-> 0]

RECURSIVE SkipBlanks(_, _)
\* The first position at or after i that holds no blank
SkipBlanks(toks, i) ==
    IF i <= Len(toks) /\ toks[i] = " " THEN SkipBlanks(toks, i + 1) ELSE i

RECURSIVE ParseValue(_, _)
RECURSIVE ParseElements(_, _, _)
RECURSIVE ParseMembers(_, _, _)
\* One JSON value starting at position i: [ok, val, next]
ParseValue(toks, i0) ==
    LET i == SkipBlanks(toks, i0)
    IN  IF i > Len(toks) THEN ParseFail
        ELSE IF toks[i] = Quote THEN
          LET closes == {j \in Positions(toks, Quote) : j > i}
          IN  IF closes = {} THEN ParseFail
              ELSE [ok |-> TRUE,
                    val |-> JsonStr(SubSeq(toks, i + 1, Min(closes) - 1)),
                    next |-> Min(closes) + 1]
        ELSE IF toks[i] = "null" THEN [ok |-> TRUE, val |-> Null, next |-> i + 1]
        ELSE IF toks[i] \in NumberLexemes
          THEN [ok |-> TRUE, val |-> Num(NumberOf(toks[i])), next |-> i + 1]
        ELSE IF toks[i] = "[" THEN
          (IF SkipBlanks(toks, i + 1) <= Len(toks) /\ toks[SkipBlanks(toks, i + 1)] = "]"
             THEN [ok |-> TRUE, val |-> Arr(<<>>), next |-> SkipBlanks(toks, i + 1) + 1]
           ELSE ParseElements(toks, i + 1, <<>>))
        ELSE IF toks[i] = "{" THEN
          (IF SkipBlanks(toks, i + 1) <= Len(toks) /\ toks[SkipBlanks(toks, i + 1)] = "}"
             THEN [ok |-> TRUE, val |-> Obj(<<>>), next |-> SkipBlanks(toks, i + 1) + 1]
           ELSE ParseMembers(toks, i + 1, <<>>))
        ELSE ParseFail

\* The elements of an array after "[" or ",": value, then "," or "]"
ParseElements(toks, i, acc) ==
    LET e == ParseValue(toks, i)
        j == SkipBlanks(toks, e.next)
    IN  IF ~e.ok \/ j > Len(toks) THEN ParseFail
        ELSE IF toks[j] = "]"
          THEN [ok |-> TRUE, val |-> Arr(Append(acc, e.val)), next |-> j + 1]
        ELSE IF toks[j] = "," THEN ParseElements(toks, j + 1, Append(acc, e.val))
        ELSE ParseFail

\* The members of an object after "{" or ",": string, ":", value, then "," or "}"
ParseMembers(toks, i, acc) ==
    LET key == ParseValue(toks, i)
        c == SkipBlanks(toks, key.next)
    IN  IF ~key.ok \/ key.val.t # "string" \/ c > Len(toks) \/ toks[c] # ":" THEN ParseFail
        ELSE
          LET e == ParseValue(toks, c + 1)
              j == SkipBlanks(toks, e.next)
              members == Append(acc, [k |-> key.val.v, v |-> e.val])
          IN  IF ~e.ok \/ j > Len(toks) THEN ParseFail
              ELSE IF toks[j] = "}"
                THEN [ok |-> TRUE, val |-> Obj(members), next |-> j + 1]
              ELSE IF toks[j] = "," THEN ParseMembers(toks, j + 1, members)
              ELSE ParseFail

\* JSON.parse(text): one value and nothing but blanks after it, else a SyntaxError
JsonParse(toks) ==
    LET r == ParseValue(toks, 1)
    IN  IF r.ok /\ SkipBlanks(toks, r.next) > Len(toks) THEN r ELSE ParseFail

\* value.key for a parsed value: a member of an object, undefined on the other
\* non-null values (reading a property of null raises)
Member(val, key) == IF val.t = "object" THEN PropGet(val.v, key) ELSE Undefined

\* text.replace(/\"/g, "")
StripQuotes(toks) == SelectSeq(toks, LAMBDA x : x # Quote)

\* Lines 240-262: the action id and the parameters taken from the content.
\* A SyntaxError of JSON.parse, or the TypeError of reading null.actionId,
\* lands in the catch that uses the stripped content as the id.
ExtractAction(content) ==
    LET trimmed == TrimLexemes(content)
        parsed == JsonParse(trimmed)
    IN  IF parsed.ok /\ parsed.val.t # "null"
          THEN [actionId |-> IF Truthy(Member(parsed.val, "actionId"))
                               THEN Member(parsed.val, "actionId") ELSE Str(""),
                parameters |-> IF Truthy(Member(parsed.val, "parameters"))
                                 THEN Member(parsed.val, "parameters") ELSE Arr(<<>>)]
        ELSE [actionId |-> Str(Join(StripQuotes(trimmed), "")),
              parameters |-> Arr(<<>>)]

\* Properties every plain object inherits from Object.prototype (those the
\* model's action ids range over)
ObjectPrototypeKeys == {"constructor", "toString"}

\* context.actionRegistry[actionId]: an own entry, an inherited property, or
\* undefined
RegistryLookup(registry, actionId) ==
    LET key == ToJsString(actionId)
    IN  IF key \in DOMAIN registry THEN [kind |-> "entry", key |-> key]
        ELSE IF key \in ObjectPrototypeKeys THEN [kind |-> "inherited", key |-> key]
        ELSE [kind |-> "undefined", key |-> key]

\* The condition of line 270-274
IsRegistered(registry, actionId) ==
    /\ Truthy(actionId)
    /\ ~(actionId.t = "string" /\ actionId.v = "none")
    /\ RegistryLookup(registry, actionId).kind # "undefined"

\* ...parameters: the positional arguments, or the TypeError of spreading a
\* value that is not iterable.  A string spreads into its characters; a string
\* given as the parameters is written with one-character lexemes.
Spread(parameters) ==
    CASE parameters.t = "array" -> [ok |-> TRUE, args |-> parameters.v]
      [] parameters.t = "string" ->
            [ok |-> TRUE,
             args |-> [i \in 1..Len(parameters.chars) |-> Str(parameters.chars[i])]]
      [] OTHER -> [ok |-> FALSE, args |-> <<>>]

RECURSIVE JsonStringify(_)
\* JSON.stringify of a parsed value
JsonStringify(val) ==
    CASE val.t = "string" -> Quote \o val.v \o Quote
      [] val.t = "number" -> ToString(val.v)
      [] val.t = "null" -> "null"
      [] val.t = "array" ->
            "[" \o Join([i \in 1..Len(val.v) |-> JsonStringify(val.v[i])], ",") \o "]"
      [] val.t = "object" ->
            "{" \o Join([i \in 1..Len(val.v) |->
                           Quote \o val.v[i].k \o Quote \o ":" \o JsonStringify(val.v[i].v)], ",")
                \o "}"
      [] OTHER -> "undefined"

(***************************************************************************)
(* Reindexing Scheduler: the Langact component.                            *)
(***************************************************************************)
\* The fiber roots the UI runtime shows the scheduler
SchedFibers ==
    {MkFiber(<<0>>, <<ButtonNode>>),
     MkFiber(<<0, 1>>, <<DivNode, RowNode>>)}

\* Mutant of updateActionMaps: setLLMActionMap is not called, the map stays
UpdateActionMapsStaleMap(root, p, cur) ==
    IF root.root = 0
      THEN [actionRegistry |-> EmptyMap,
            llmActionMap |-> cur.llmActionMap,
            semanticStructure |-> AbsentSemantic,
            stamp |-> [reg |-> p, map |-> cur.stamp.map, sem |-> p]]
    ELSE [actionRegistry |-> createActionRegistry(root),
          llmActionMap |-> cur.llmActionMap,
          semanticStructure |-> createSemanticStructure(fiberToComponentTree(root, root.root)),
          stamp |-> [reg |-> p, map |-> cur.stamp.map, sem |-> p]]

\* Mutant of updateActionMaps: without a root only the registry and the map
\* are cleared, the semantic structure stays
UpdateActionMapsKeepSemantic(root, p, cur) ==
    IF root.root = 0
      THEN [actionRegistry |-> EmptyMap,
            llmActionMap |-> EmptyMap,
            semanticStructure |-> cur.semanticStructure,
            stamp |-> [reg |-> p, map |-> p, sem |-> p]]
    ELSE [actionRegistry |-> createActionRegistry(root),
          llmActionMap |-> createLLMActionMap(createActionRegistry(root)),
          semanticStructure |-> createSemanticStructure(fiberToComponentTree(root, root.root)),
          stamp |-> [reg |-> p, map |-> p, sem |-> p]]

\* updateActionMaps with fiber root `root`, as pass number p.  cur is the
\* component state before the pass; the three setters are batched into one
\* render, so the pass is one step for every consumer of the context.
updateActionMaps(root, p, cur) ==
    IF root.root = 0
      THEN [actionRegistry |-> EmptyMap,
            llmActionMap |-> EmptyMap,
            semanticStructure |-> AbsentSemantic,
            stamp |-> [reg |-> p, map |-> p, sem |-> p]]
    ELSE [actionRegistry |-> createActionRegistry(root),
          llmActionMap |-> createLLMActionMap(createActionRegistry(root)),
          semanticStructure |-> createSemanticStructure(fiberToComponentTree(root, root.root)),
          stamp |-> [reg |-> p, map |-> p, sem |-> p]]

\* Mutant of debouncedUpdate: the pending timer is not cleared
DebouncedUpdateNoClear(ref, pending, id) == [ref |-> id, pending |-> pending \cup {id}]

\* debouncedUpdate: clear the timer the ref holds, arm timer `id`.  A timer id
\* is a positive number, so a held handle is truthy.
debouncedUpdate(ref, pending, id) ==
    [ref |-> id,
     pending |-> (IF ref # 0 THEN pending \ {ref} ELSE pending) \cup {id}]

\* Mutant of the cleanup: the observer is disconnected, the timer is left armed
ObserverCleanupNoClear(ref, pending) == [observing |-> FALSE, pending |-> pending]

\* The cleanup of the observer effect: disconnect, clear the timer the ref holds
ObserverCleanup(ref, pending) ==
    [observing |-> FALSE,
     pending |-> IF ref # 0 THEN pending \ {ref} ELSE pending]

\* The mutation records of the model: type and target tag
MutationRecords ==
    {[type |-> "childList", tagName |-> "DIV"],
     [type |-> "attributes", tagName |-> "INPUT"],
     [type |-> "attributes", tagName |-> "BUTTON"],
     [type |-> "attributes", tagName |-> "SELECT"],
     [type |-> "attributes", tagName |-> "DIV"]}

\* The batches the observer callback is called with
MutationBatches ==
    {<<r>> : r \in MutationRecords}
      \cup {<<[type |-> "attributes", tagName |-> "DIV"], [type |-> "attributes", tagName |-> "DIV"]>>,
            <<[type |-> "attributes", tagName |-> "DIV"], [type |-> "childList", tagName |-> "DIV"]>>}

\* Mutant of ShouldUpdate: an attribute record qualifies whatever its target
ShouldUpdateAnyTarget(mutations) ==
    \E i \in 1..Len(mutations) : mutations[i].type \in {"attributes", "childList"}

\* The loop of the observer callback: shouldUpdate
ShouldUpdate(mutations) ==
    \E i \in 1..Len(mutations) :
        \/ /\ mutations[i].type = "attributes"
           /\ mutations[i].tagName \in {"INPUT", "BUTTON", "SELECT"}
        \/ mutations[i].type = "childList"

(***************************************************************************)
(* Command Resolver, remote strategy: sendQueryToLLM after the response.   *)
(***************************************************************************)
\* A status message: the literal part of the message and the interpolated part
Status(msg, arg) == [msg |-> msg, arg |-> arg]

Thinking == Status("Thinking...", "")
NoSuitable == Status("No suitable action found for your request.", "")
InvalidId == Status("LLM did not return a valid action id.", "")
Executing(actionId, parameters) ==
    Status("Executing action: ",
           ToJsString(actionId) \o " with parameters: " \o JsonStringify(parameters))
ExecutionError(err) == Status("Action execution error: ", err)
ApiError(statusText) == Status("LLM API error: ", statusText)
OuterError(err) == Status("Error: ", err)

\* The query strings of the model, as lexemes
Queries == {<<" ">>, <<"add", " ", "milk">>}

\* !query.trim()
IsBlank(q) == Len(TrimLexemes(q)) = 0

\* The response contents of the model
Contents ==
    {<<"{", Quote, "actionId", Quote, ":", Quote, "action_0", Quote, ",",
       Quote, "parameters", Quote, ":", "[", Quote, "hello", Quote, ",", "5", "]", "}">>,
     <<"{", Quote, "actionId", Quote, ":", Quote, "action_1", Quote, "}">>,
     <<"{", Quote, "actionId", Quote, ":", Quote, "action_0", Quote, ",",
       Quote, "parameters", Quote, ":", "5", "}">>,
     <<"{", Quote, "actionId", Quote, ":", Quote, "action_0", Quote, ",",
       Quote, "parameters", Quote, ":", Quote, "h", "i", Quote, "}">>,
     <<" ", "{", Quote, "actionId", Quote, ":", " ", Quote, "none", Quote, "}", " ">>,
     <<"{", Quote, "actionId", Quote, ":", Quote, "action_7", Quote, "}">>,
     <<"{", Quote, "actionId", Quote, ":", Quote, "constructor", Quote, "}">>,
     <<"{", Quote, "actionId", Quote, ":", Quote, Quote, "}">>,
     <<"{", Quote, "parameters", Quote, ":", "[", "]", "}">>,
     <<"null">>,
     <<Quote, "action_0", Quote>>,
     <<" ", "action_0", " ">>,
     <<"actionId", ":", " ", Quote, "action_1", Quote>>,
     <<"none">>,
     <<"toString">>,
     <<"Sure", " ", "thing">>,
     <<"{", Quote, "actionId", Quote, ":", Quote, "action_0", Quote>>,
     <<Quote>>}

\* The parsed response bodies of the model: null, an object without choices,
\* the first choice's message content (possibly the empty string)
Bodies ==
    {[kind |-> "null", content |-> <<>>],
     [kind |-> "nochoices", content |-> <<>>],
     [kind |-> "content", content |-> <<>>]}
      \cup {[kind |-> "content", content |-> c] : c \in Contents}

\* Mutant of InvokeAction: the parameters are passed as one argument, unspread
InvokeActionUnspread(registry, actionId, parameters) ==
    LET found == RegistryLookup(registry, actionId)
    IN  IF found.kind # "entry"
          THEN [calls |-> <<>>, raised |-> TRUE,
                err |-> "TypeError: execute is not a function"]
        ELSE [calls |-> <<[key |-> found.key,
                           fn |-> registry[found.key].execute,
                           args |-> <<parameters>>]>>,
              raised |-> registry[found.key].execute.raises,
              err |-> IF registry[found.key].execute.raises
                        THEN "Error: " \o registry[found.key].execute.name ELSE ""]

\* context.actionRegistry[actionId].execute(...parameters): the calls made and
\* the error raised, if any.  The callee is undefined for an inherited
\* property; the arguments are evaluated before the call.
InvokeAction(registry, actionId, parameters) ==
    LET found == RegistryLookup(registry, actionId)
        spread == Spread(parameters)
    IN  IF ~spread.ok
          THEN [calls |-> <<>>, raised |-> TRUE,
                err |-> "TypeError: parameters is not iterable"]
        ELSE IF found.kind # "entry"
          THEN [calls |-> <<>>, raised |-> TRUE,
                err |-> "TypeError: execute is not a function"]
        ELSE [calls |-> <<[key |-> found.key,
                           fn |-> registry[found.key].execute,
                           args |-> spread.args]>>,
              raised |-> registry[found.key].execute.raises,
              err |-> IF registry[found.key].execute.raises
                        THEN "Error: " \o registry[found.key].execute.name ELSE ""]

\* Mutant of the call site: no try/catch around the call, so the error lands
\* in the outer catch
CallSiteStatusUncaught(invoked, actionId, parameters) ==
    IF invoked.raised
      THEN <<Executing(actionId, parameters), OuterError(invoked.err)>>
    ELSE <<Executing(actionId, parameters)>>

\* The call site (lines 275-287): the statuses set around the call.  The
\* executing status is set before the call; an error of the call is caught
\* and replaces it.
CallSiteStatus(invoked, actionId, parameters) ==
    IF invoked.raised
      THEN <<Executing(actionId, parameters), ExecutionError(invoked.err)>>
    ELSE <<Executing(actionId, parameters)>>

\* Lines 270-292: the resolution of the extracted id against the registry
Resolve(registry, actionId, parameters) ==
    IF IsRegistered(registry, actionId)
      THEN LET invoked == InvokeAction(registry, actionId, parameters)
           IN  [statuses |-> CallSiteStatus(invoked, actionId, parameters),
                calls |-> invoked.calls]
    ELSE IF actionId.t = "string" /\ actionId.v = "none"
      THEN [statuses |-> <<NoSuitable>>, calls |-> <<>>]
    ELSE [statuses |-> <<InvalidId>>, calls |-> <<>>]

\* Mutant of ResolveResponse: the outer catch returns without setLoading(false)
ResolveResponseKeepsLoading(data, ctx, curQuery) ==
    IF data.kind = "null"
      THEN [statuses |-> <<OuterError("TypeError: data is null")>>, query |-> curQuery,
            calls |-> <<>>, loading |-> TRUE, rejected |-> FALSE]
    ELSE
      LET extracted == IF data.kind = "content" /\ Len(data.content) > 0
                         THEN ExtractAction(data.content)
                       ELSE [actionId |-> Str(""), parameters |-> Arr(<<>>)]
          r == Resolve(ctx.actionRegistry, extracted.actionId, extracted.parameters)
      IN  [statuses |-> r.statuses, query |-> <<>>, calls |-> r.calls,
           loading |-> FALSE, rejected |-> FALSE]

\* Lines 238-296 once response.json() has resolved with `data`: the extraction,
\* setQuery(""), the resolution and setLoading(false).  Reading data.choices of
\* a null body raises into the outer catch, before the query is cleared.  No
\* path lets an error out of the function: rejected is whether its promise
\* rejects.
ResolveResponse(data, ctx, curQuery) ==
    IF data.kind = "null"
      THEN [statuses |-> <<OuterError("TypeError: data is null")>>, query |-> curQuery,
            calls |-> <<>>, loading |-> FALSE, rejected |-> FALSE]
    ELSE
      LET extracted == IF data.kind = "content" /\ Len(data.content) > 0
                         THEN ExtractAction(data.content)
                       ELSE [actionId |-> Str(""), parameters |-> Arr(<<>>)]
          r == Resolve(ctx.actionRegistry, extracted.actionId, extracted.parameters)
      IN  [statuses |-> r.statuses, query |-> <<>>, calls |-> r.calls,
           loading |-> FALSE, rejected |-> FALSE]

(***************************************************************************)
(* Registration Context and Command Resolver, local strategy.  A string is *)
(* a sequence of one-character strings.                                    *)
(***************************************************************************)
\* The longest query typed into the local command bar
MaxQuery == 3

\* The Map of declared actions is a sequence of entries in insertion order
KeyIndex(entries, key) ==
    IF \E i \in 1..Len(entries) : entries[i].key = key
      THEN CHOOSE i \in 1..Len(entries) : entries[i].key = key
    ELSE 0

\* Mutant of registerAction: the action is added without looking for its id
RegisterActionAppends(prevActions, action) ==
    Append(prevActions, [key |-> action.id, value |-> action])

\* registerAction: new Map(prevActions).set(action.id, action); a key already
\* in the Map keeps its place and gets the new value
registerAction(prevActions, action) ==
    LET i == KeyIndex(prevActions, action.id)
    IN  IF i = 0 THEN Append(prevActions, [key |-> action.id, value |-> action])
        ELSE [prevActions EXCEPT ![i] = [key |-> action.id, value |-> action]]

\* unregisterAction: a copy of the Map with the key deleted
unregisterAction(prevActions, id) ==
    LET Kept(entry) == entry.key # id
    IN  SelectSeq(prevActions, Kept)

\* String.prototype.toLowerCase over the letters of the model
LowerChar(ch) == IF ch = "A" THEN "a" ELSE IF ch = "B" THEN "b" ELSE ch
ToLowerCase(str) == [i \in 1..Len(str) |-> LowerChar(str[i])]

\* The characters \s matches and trim removes
IsSpace(ch) == ch = " "

\* !command.trim()
TrimIsEmpty(command) == \A i \in 1..Len(command) : IsSpace(command[i])

\* str.split(/\s+/): the pieces between the maximal runs of whitespace; a run
\* at the start or at the end leaves an empty piece before or after it
RECURSIVE SplitWhitespace(_, _, _, _)
SplitWhitespace(str, i, piece, pieces) ==
    IF i > Len(str) THEN Append(pieces, piece)
    ELSE IF IsSpace(str[i])
      THEN IF i > 1 /\ IsSpace(str[i - 1])
             THEN SplitWhitespace(str, i + 1, piece, pieces)
           ELSE SplitWhitespace(str, i + 1, <<>>, Append(pieces, piece))
    ELSE SplitWhitespace(str, i + 1, Append(piece, str[i]), pieces)

\* description.includes(word)
Includes(description, word) ==
    \E k \in 0..(Len(description) - Len(word)) :
        SubSeq(description, k + 1, k + Len(word)) = word

\* The inner loop: currentScore of one description
RECURSIVE CurrentScore(_, _, _)
CurrentScore(description, commandWords, i) ==
    IF i > Len(commandWords) THEN 0
    ELSE (IF Includes(description, commandWords[i]) THEN 1 ELSE 0)
           + CurrentScore(description, commandWords, i + 1)

\* Mutant of ReplacesBest: an equal score replaces the best action too
ReplacesBestOnTie(currentScore, maxScore) == currentScore >= maxScore

\* if (currentScore > maxScore)
ReplacesBest(currentScore, maxScore) == currentScore > maxScore

\* bestAction = null
NoBestAction == [found |-> FALSE, action |-> [id |-> "", description |-> <<>>, handler |-> Undefined]]

\* The loop over actions.values(): bestAction after the entries from i on
RECURSIVE ScanActions(_, _, _, _, _)
ScanActions(entries, i, commandWords, bestAction, maxScore) ==
    IF i > Len(entries) THEN bestAction
    ELSE LET currentScore == CurrentScore(ToLowerCase(entries[i].value.description), commandWords, 1)
         IN  IF ReplacesBest(currentScore, maxScore)
               THEN ScanActions(entries, i + 1, commandWords,
                                [found |-> TRUE, action |-> entries[i].value], currentScore)
             ELSE ScanActions(entries, i + 1, commandWords, bestAction, maxScore)

\* The statuses of the local command bar
ExecutingLocal(description) == [msg |-> "Executing: ", arg |-> description]
DontKnow == [msg |-> "Sorry, I don't know how to do that.", arg |-> <<>>]

\* findAndExecuteAction(command): whether it got past its guard, the status it
\* set, the handler calls it made, the query field after it, and whether the
\* handler's error left it
findAndExecuteAction(entries, command, curStatus, curQuery) ==
    IF TrimIsEmpty(command)
      THEN [ran |-> FALSE, status |-> curStatus, calls |-> <<>>, query |-> curQuery,
            raised |-> FALSE]
    ELSE
      LET commandWords == SplitWhitespace(ToLowerCase(command), 1, <<>>, <<>>)
          bestAction == ScanActions(entries, 1, commandWords, NoBestAction, 0)
      IN  IF bestAction.found
            THEN [ran |-> TRUE,
                  status |-> ExecutingLocal(bestAction.action.description),
                  calls |-> <<[id |-> bestAction.action.id,
                               fn |-> bestAction.action.handler, args |-> <<>>]>>,
                  query |-> IF bestAction.action.handler.raises THEN curQuery ELSE <<>>,
                  raised |-> bestAction.action.handler.raises]
          ELSE [ran |-> TRUE, status |-> DontKnow, calls |-> <<>>, query |-> curQuery,
                raised |-> FALSE]

\* The actions components declare: two ids, one of them declared twice
AiActions ==
    {[id |-> "add", description |-> <<"A", "b">>, handler |-> Fn("addTask", <<"(", ")">>, FALSE)],
     [id |-> "del", description |-> <<"a">>, handler |-> Fn("deleteTask", <<"(", ")">>, FALSE)],
     [id |-> "add", description |-> <<"b", "a">>, handler |-> Fn("failing", <<"(", ")">>, TRUE)]}
AiActionIds == {a.id : a \in AiActions}

\* The commands typed are the strings of up to MaxQuery of these characters,
\* reached from the input's value by typing or erasing one character at its end
CommandChars == {"a", "B", " "}
Edits(value) ==
    {command \in {Append(value, ch) : ch \in CommandChars} : Len(command) <= MaxQuery}
      \cup (IF value = <<>> THEN {} ELSE {SubSeq(value, 1, Len(value) - 1)})

(***************************************************************************)
(* State.                                                                  *)
(***************************************************************************)
VARIABLES
    actionRegistry,     \* Langact state: the registry of the latest pass
    llmActionMap,       \* Langact state: the LLM action map
    semanticStructure,  \* Langact state: the semantic structure, or absent
    updateTimeoutRef,   \* the timer handle the ref holds, 0 for undefined
    timers,             \* the timers armed and neither fired nor cleared
    nextTimer,          \* the handle the next setTimeout returns
    observing,          \* whether a connected MutationObserver exists
    scope,              \* "init" before the effects run, "active", "disposed"
    fiberRoot,          \* what (children)._owner?.child evaluates to
    stamp,              \* history: the pass each of the three artifacts is from
    passes,             \* history: the number of reindex passes run
    burst,              \* history: the current burst of qualifying notifications
    lastPass,           \* history: the circumstances of the latest pass
    disposal,           \* history: the passes and artifacts at the disposal
    query,              \* CommandBar state: the input's value, as lexemes
    status,             \* CommandBar state: the status message
    loading,            \* CommandBar state
    pc,                 \* where sendQueryToLLM is: "idle", "fetch", "json"
    context,            \* the context value the running sendQueryToLLM closed over
    calls,              \* history: the handler calls of the latest submission
    statuses,           \* history: the statuses set by the latest submission
    outcome,            \* history: how the latest submission ended
    requests,           \* history: the requests outstanding, a submission refused,
                        \* the llmActionMap of the latest request body and its pass
    tree,               \* a fiber tree given to createActionRegistry on its own
    extracted,          \* the latest pass over such a tree: tree, registry, number
    actions,            \* LangactProvider state: the Map of declared actions
    localQuery,         \* local CommandBar state: the input's value
    localStatus,        \* local CommandBar state: the status message
    localRun,           \* history: the latest findAndExecuteAction
    regOp,              \* history: the latest registerAction or unregisterAction
    hookUsers,          \* the mounted components that use useAiAction: effect run, not cleaned up
    walked,             \* the latest fiberToComponentTree: tree, start node, result
    delivery            \* history, kept when switched on: the latest batch delivered

langactVars == <<actionRegistry, llmActionMap, semanticStructure, updateTimeoutRef, timers, nextTimer, observing, scope, fiberRoot, stamp, passes, burst, lastPass, disposal, delivery>>
commandBarVars == <<query, status, loading, pc, context, calls, statuses, outcome, requests>>
extractVars == <<tree, extracted, walked>>
localVars == <<actions, localQuery, localStatus, localRun, regOp, hookUsers>>
vars == <<langactVars, commandBarVars, extractVars, localVars>>

NoBurst == [size |-> 0, armed |-> 0, passes |-> 0, open |-> FALSE, cancelled |-> FALSE]
NoOutcome == [how |-> "none", data |-> [kind |-> "nochoices", content |-> <<>>], text |-> "", queryAfter |-> <<>>, rejected |-> FALSE, kept |-> TRUE]
NoPass == [absentRoot |-> FALSE, hadActions |-> FALSE, cause |-> "none"]
NoExtract == [tree |-> NoFiber, reg |-> EmptyMap, pass |-> 0]
NoDelivery == [on |-> FALSE, seen |-> FALSE, batch |-> <<>>, observed |-> FALSE, pending |-> {}, armed |-> FALSE, slotKept |-> TRUE, kept |-> TRUE]
NoRequest == [pass |-> 0, llmActionMap |-> EmptyMap]
NoWalk == [tree |-> NoFiber, from |-> 0, componentTree |-> AbsentTree, done |-> FALSE]

\* The state after construction: the useState initial values, no effect run yet
InitLangact ==
    /\ actionRegistry = EmptyMap
    /\ llmActionMap = EmptyMap
    /\ semanticStructure = AbsentSemantic
    /\ updateTimeoutRef = 0
    /\ timers = {}
    /\ nextTimer = 1
    /\ observing = FALSE
    /\ scope = "init"
    /\ fiberRoot \in SchedFibers \cup {NoFiber}
    /\ stamp = [reg |-> 0, map |-> 0, sem |-> 0]
    /\ passes = 0
    /\ burst = NoBurst
    /\ lastPass = NoPass
    /\ disposal = [passes |-> 0, actionRegistry |-> EmptyMap, llmActionMap |-> EmptyMap,
                   semanticStructure |-> AbsentSemantic]
    /\ delivery \in {NoDelivery, [NoDelivery EXCEPT !.on = TRUE]}

InitCommandBar ==
    /\ query = <<>>
    /\ status = Status("", "")
    /\ loading = FALSE
    /\ pc = "idle"
    /\ context = [actionRegistry |-> EmptyMap, llmActionMap |-> EmptyMap,
                  semanticStructure |-> AbsentSemantic,
                  stamp |-> [reg |-> 0, map |-> 0, sem |-> 0]]
    /\ calls = <<>>
    /\ statuses = <<>>
    /\ outcome = NoOutcome
    /\ requests = [outstanding |-> 0, refused |-> FALSE, sent |-> NoRequest]

NoRun == [ran |-> FALSE, command |-> <<>>, entries |-> <<>>, calls |-> <<>>, queryAfter |-> <<>>, raised |-> FALSE]
NoRegOp == [op |-> "none", id |-> "", action |-> NoBestAction.action, before |-> <<>>]

InitLocal ==
    /\ actions = <<>>
    /\ localQuery = <<>>
    /\ localStatus = [msg |-> "", arg |-> <<>>]
    /\ localRun = NoRun
    /\ regOp = NoRegOp
    /\ hookUsers = {}

Init ==
    /\ InitLangact
    /\ ~delivery.on
    /\ InitCommandBar
    /\ tree = NoFiber
    /\ extracted = NoExtract
    /\ walked = NoWalk
    /\ InitLocal

\* One reindex pass, started by `cause`: the three artifacts are replaced by
\* updateActionMaps
RunPass(cause) ==
    LET new == updateActionMaps(fiberRoot, passes + 1,
                                [actionRegistry |-> actionRegistry,
                                 llmActionMap |-> llmActionMap,
                                 semanticStructure |-> semanticStructure,
                                 stamp |-> stamp])
    IN  /\ actionRegistry' = new.actionRegistry
        /\ llmActionMap' = new.llmActionMap
        /\ semanticStructure' = new.semanticStructure
        /\ stamp' = new.stamp
        /\ passes' = passes + 1
        /\ lastPass' = [absentRoot |-> fiberRoot.root = 0,
                        hadActions |-> DOMAIN actionRegistry # {},
                        cause |-> cause]

\* The burst after a cleanup that finds the latest notification's timer pending
BurstAfterCleanup ==
    IF burst.open THEN [burst EXCEPT !.open = FALSE, !.cancelled = TRUE] ELSE burst

\* The scope becomes active: the initial-update effect runs a pass and the
\* observer effect connects the MutationObserver
Mount ==
    /\ scope = "init"
    /\ passes < MaxPasses
    /\ RunPass("mount")
    /\ observing' = TRUE
    /\ scope' = "active"
    /\ UNCHANGED <<updateTimeoutRef, timers, nextTimer, fiberRoot, burst, disposal>>
    /\ UNCHANGED delivery
    /\ UNCHANGED <<commandBarVars, extractVars, localVars>>

\* A render with children of a new identity: updateActionMaps and
\* debouncedUpdate are new callbacks, so the observer effect is cleaned up,
\* the initial-update effect runs a pass and a new observer is connected
ChildrenChange ==
    /\ scope = "active"
    /\ passes < MaxPasses
    /\ timers' = ObserverCleanup(updateTimeoutRef, timers).pending
    /\ burst' = BurstAfterCleanup
    /\ RunPass("children")
    /\ observing' = TRUE
    /\ UNCHANGED <<updateTimeoutRef, nextTimer, scope, fiberRoot, disposal>>
    /\ UNCHANGED delivery
    /\ UNCHANGED <<commandBarVars, extractVars, localVars>>

\* The UI runtime changes the tree under the owner fiber
UiRender(f) ==
    /\ scope = "active"
    /\ f # fiberRoot
    /\ fiberRoot' = f
    /\ UNCHANGED <<actionRegistry, llmActionMap, semanticStructure, updateTimeoutRef, timers, nextTimer, observing, scope, stamp, passes, burst, lastPass, disposal>>
    /\ UNCHANGED delivery
    /\ UNCHANGED <<commandBarVars, extractVars, localVars>>

\* The DOM mutates and the batch reaches the observer callback, if an
\* observer is connected
Mutations(batch) ==
    /\ scope # "init"
    /\ IF observing /\ ShouldUpdate(batch)
         THEN /\ nextTimer <= MaxTimers
              /\ updateTimeoutRef' = debouncedUpdate(updateTimeoutRef, timers, nextTimer).ref
              /\ timers' = debouncedUpdate(updateTimeoutRef, timers, nextTimer).pending
              /\ nextTimer' = nextTimer + 1
              /\ burst' = IF burst.open
                            THEN [burst EXCEPT !.size = @ + 1, !.armed = nextTimer]
                          ELSE [size |-> 1, armed |-> nextTimer, passes |-> 0,
                                open |-> TRUE, cancelled |-> FALSE]
         ELSE UNCHANGED <<updateTimeoutRef, timers, nextTimer, burst>>
    /\ UNCHANGED <<actionRegistry, llmActionMap, semanticStructure, observing, scope, fiberRoot, stamp, passes, lastPass, disposal>>
    /\ UNCHANGED <<commandBarVars, extractVars, localVars>>
    /\ delivery' = IF delivery.on
                     THEN [on |-> TRUE, seen |-> TRUE, batch |-> batch,
                           observed |-> observing, pending |-> timers,
                           armed |-> updateTimeoutRef' = nextTimer /\ nextTimer \in timers',
                           slotKept |-> updateTimeoutRef' = updateTimeoutRef /\ timers' = timers,
                           kept |-> <<actionRegistry', llmActionMap', semanticStructure', passes'>>
                                      = <<actionRegistry, llmActionMap, semanticStructure, passes>>]
                   ELSE delivery

\* An armed timer fires: updateActionMaps runs
TimerFire(t) ==
    /\ t \in timers
    /\ passes < MaxPasses
    /\ timers' = timers \ {t}
    /\ RunPass("timer")
    /\ burst' = [burst EXCEPT !.passes = IF burst.size > 0 THEN @ + 1 ELSE @,
                              !.open = IF t = burst.armed THEN FALSE ELSE @]
    /\ UNCHANGED <<updateTimeoutRef, nextTimer, observing, scope, fiberRoot, disposal>>
    /\ UNCHANGED delivery
    /\ UNCHANGED <<commandBarVars, extractVars, localVars>>

\* The owning scope is disposed: the cleanup of the observer effect runs
Unmount ==
    /\ scope = "active"
    /\ observing' = ObserverCleanup(updateTimeoutRef, timers).observing
    /\ timers' = ObserverCleanup(updateTimeoutRef, timers).pending
    /\ burst' = BurstAfterCleanup
    /\ scope' = "disposed"
    /\ disposal' = [passes |-> passes, actionRegistry |-> actionRegistry,
                    llmActionMap |-> llmActionMap, semanticStructure |-> semanticStructure]
    /\ UNCHANGED <<actionRegistry, llmActionMap, semanticStructure, updateTimeoutRef, nextTimer, fiberRoot, stamp, passes, lastPass>>
    /\ UNCHANGED delivery
    /\ UNCHANGED <<commandBarVars, extractVars, localVars>>

\* Mutant of InputDisabled: the input stays enabled while loading
InputNeverDisabled(isLoading) == FALSE

\* The disabled attribute of the form's only control, disabled={loading}
InputDisabled(isLoading) == isLoading

\* The user edits the input; the input is disabled while loading
Type(q) ==
    /\ scope = "active"
    /\ ~InputDisabled(loading)
    /\ q # query
    /\ query' = q
    /\ UNCHANGED <<status, loading, pc, context, calls, statuses, outcome, requests>>
    /\ UNCHANGED <<langactVars, extractVars, localVars>>

\* The user presses Enter in the input while it is disabled: the browser
\* dispatches no submit event, handleSubmit does not run
EnterWhileDisabled ==
    /\ scope = "active"
    /\ InputDisabled(loading)
    /\ ~requests.refused
    /\ requests' = [requests EXCEPT !.refused = TRUE]
    /\ UNCHANGED <<query, status, loading, pc, context, calls, statuses, outcome>>
    /\ UNCHANGED <<langactVars, extractVars, localVars>>

\* handleSubmit -> sendQueryToLLM(query) up to the await of fetch.  The form's
\* only control is the input, disabled while loading.  The function run is
\* the one of the latest committed render, so the context it closes over is
\* the value Langact provides now; the request body carries its llmActionMap.
Submit ==
    /\ ~InputDisabled(loading)
    /\ scope = "active"
    /\ IF IsBlank(query)
         THEN UNCHANGED <<status, loading, pc, context, calls, statuses, outcome, requests>>
         ELSE /\ requests' = [outstanding |-> requests.outstanding + 1, refused |-> FALSE,
                               sent |-> [pass |-> stamp.map, llmActionMap |-> llmActionMap]]
              /\ loading' = TRUE
              /\ status' = Thinking
              /\ pc' = "fetch"
              /\ context' = [actionRegistry |-> actionRegistry,
                             llmActionMap |-> llmActionMap,
                             semanticStructure |-> semanticStructure,
                             stamp |-> stamp]
              /\ calls' = <<>>
              /\ statuses' = <<Thinking>>
              /\ outcome' = NoOutcome
    /\ UNCHANGED query
    /\ UNCHANGED <<langactVars, extractVars, localVars>>

\* fetch rejects: the outer catch, then setLoading(false)
FetchRejects ==
    /\ pc = "fetch"
    /\ status' = OuterError("TypeError: Failed to fetch")
    /\ statuses' = Append(statuses, OuterError("TypeError: Failed to fetch"))
    /\ loading' = FALSE
    /\ pc' = "idle"
    /\ outcome' = [NoOutcome EXCEPT !.how = "rejected", !.queryAfter = query]
    /\ requests' = [requests EXCEPT !.outstanding = @ - 1]
    /\ UNCHANGED <<query, context, calls>>
    /\ UNCHANGED <<langactVars, extractVars, localVars>>

\* The status texts of the model
StatusTexts == {"", "Too Many Requests"}

\* fetch resolves with a response of a non-success status
FetchNotOk(statusText) ==
    /\ pc = "fetch"
    /\ status' = ApiError(statusText)
    /\ statuses' = Append(statuses, ApiError(statusText))
    /\ loading' = FALSE
    /\ pc' = "idle"
    /\ outcome' = [NoOutcome EXCEPT !.how = "http", !.text = statusText, !.queryAfter = query]
    /\ requests' = [requests EXCEPT !.outstanding = @ - 1]
    /\ UNCHANGED <<query, context, calls>>
    /\ UNCHANGED <<langactVars, extractVars, localVars>>

\* fetch resolves with a success status: on to the await of response.json()
FetchOk ==
    /\ pc = "fetch"
    /\ pc' = "json"
    /\ UNCHANGED <<query, status, loading, context, calls, statuses, outcome, requests>>
    /\ UNCHANGED <<langactVars, extractVars, localVars>>

\* response.json() rejects (the body is not JSON): the outer catch
JsonRejects ==
    /\ pc = "json"
    /\ status' = OuterError("SyntaxError: Unexpected token")
    /\ statuses' = Append(statuses, OuterError("SyntaxError: Unexpected token"))
    /\ loading' = FALSE
    /\ pc' = "idle"
    /\ outcome' = [NoOutcome EXCEPT !.how = "badjson", !.queryAfter = query]
    /\ requests' = [requests EXCEPT !.outstanding = @ - 1]
    /\ UNCHANGED <<query, context, calls>>
    /\ UNCHANGED <<langactVars, extractVars, localVars>>

\* Mutant of ClosedOverContext: the continuation reads the context value of
\* the latest render
LiveContext(captured, current) == current

\* The `context` the continuation after the awaits reads: the const of the
\* render whose sendQueryToLLM is running, whatever Langact provides by now
ClosedOverContext(captured, current) == captured

\* response.json() resolves with `data`: the rest of sendQueryToLLM
JsonResolves(data) ==
    /\ pc = "json"
    /\ UNCHANGED <<langactVars, extractVars, localVars>>
    /\ LET ctx == ClosedOverContext(context,
                                    [actionRegistry |-> actionRegistry,
                                     llmActionMap |-> llmActionMap,
                                     semanticStructure |-> semanticStructure,
                                     stamp |-> stamp])
           r == ResolveResponse(data, ctx, query)
       IN  /\ status' = r.statuses[Len(r.statuses)]
           /\ statuses' = statuses \o r.statuses
           /\ query' = r.query
           /\ calls' = r.calls
           /\ loading' = r.loading
           /\ outcome' = [how |-> "resolved", data |-> data, text |-> "",
                          queryAfter |-> r.query, rejected |-> r.rejected,
                          kept |-> <<actionRegistry', llmActionMap', semanticStructure'>>
                                     = <<actionRegistry, llmActionMap, semanticStructure>>]
    /\ pc' = "idle"
    /\ requests' = [requests EXCEPT !.outstanding = @ - 1]
    /\ UNCHANGED context

\* The bodies the response arrives with while the scheduler runs alongside
SchedBodies ==
    {[kind |-> "content",
      content |-> <<"{", Quote, "actionId", Quote, ":", Quote, "action_0", Quote, ",",
                    Quote, "parameters", Quote, ":", "[", Quote, "hello", Quote, ",", "5", "]", "}">>],
     [kind |-> "content",
      content |-> <<"{", Quote, "actionId", Quote, ":", Quote, "action_1", Quote, "}">>],
     [kind |-> "content", content |-> <<"none">>]}

\* The scheduler and the resolver side by side
Next ==
    \/ Mount
    \/ ChildrenChange
    \/ \E f \in SchedFibers \cup {NoFiber} : UiRender(f)
    \/ \E batch \in MutationBatches : Mutations(batch)
    \/ \E t \in 1..MaxTimers : TimerFire(t)
    \/ Unmount
    \/ \E q \in Queries : Type(q)
    \/ Submit
    \/ FetchRejects
    \/ \E statusText \in StatusTexts : FetchNotOk(statusText)
    \/ FetchOk
    \/ JsonRejects
    \/ \E data \in SchedBodies : JsonResolves(data)

Spec == Init /\ [][Next]_vars

\* The resolver over every response body of the model, the registry being
\* replaced by the passes of mounts and re-renders
NextResolver ==
    \/ Mount
    \/ ChildrenChange
    \/ \E f \in SchedFibers \cup {NoFiber} : UiRender(f)
    \/ \E q \in Queries : Type(q)
    \/ Submit
    \/ EnterWhileDisabled
    \/ FetchRejects
    \/ \E statusText \in StatusTexts : FetchNotOk(statusText)
    \/ FetchOk
    \/ JsonRejects
    \/ \E data \in Bodies : JsonResolves(data)

SpecResolver == Init /\ [][NextResolver]_vars

\* createActionRegistry on its own, over every fiber tree of the model
InitExtract ==
    /\ InitLangact
    /\ ~delivery.on
    /\ fiberRoot = NoFiber
    /\ InitCommandBar
    /\ tree \in Fibers
    /\ extracted = NoExtract
    /\ walked = NoWalk
    /\ InitLocal

\* One pass of createActionRegistry over the tree
Extract ==
    /\ extracted.pass < MaxPasses
    /\ extracted' = [tree |-> tree, reg |-> createActionRegistry(tree),
                     pass |-> extracted.pass + 1]
    /\ UNCHANGED <<tree, walked>>
    /\ UNCHANGED <<langactVars, commandBarVars, localVars>>

\* The UI runtime replaces the tree between two passes
Retree(f) ==
    /\ extracted.pass \in 1..(MaxPasses - 1)
    /\ extracted.tree = tree
    /\ tree' = f
    /\ UNCHANGED <<extracted, walked>>
    /\ UNCHANGED <<langactVars, commandBarVars, localVars>>

NextExtract ==
    \/ Extract
    \/ \E f \in SchedFibers \cup {NoFiber} : Retree(f)

SpecExtract == InitExtract /\ [][NextExtract]_vars

\* createActionRegistry over trees of repeated and of index-suffixed names
InitNames ==
    /\ InitLangact
    /\ ~delivery.on
    /\ fiberRoot = NoFiber
    /\ InitCommandBar
    /\ tree \in NamedFibers
    /\ extracted = NoExtract
    /\ walked = NoWalk
    /\ InitLocal

SpecNames == InitNames /\ [][NextExtract]_vars

\* Every batch of one record and of two records
ObservedBatches ==
    {<<r>> : r \in MutationRecords} \cup {<<r, q>> : r \in MutationRecords, q \in MutationRecords}

\* The scheduler alone under every batch, the deliveries recorded
InitObserver ==
    /\ InitLangact
    /\ delivery.on
    /\ InitCommandBar
    /\ tree = NoFiber
    /\ extracted = NoExtract
    /\ walked = NoWalk
    /\ InitLocal

NextObserver ==
    \/ Mount
    \/ \E batch \in ObservedBatches : Mutations(batch)
    \/ \E t \in 1..MaxTimers : TimerFire(t)
    \/ Unmount

SpecObserver == InitObserver /\ [][NextObserver]_vars

\* fiberToComponentTree on its own, started at any node of any fiber tree of
\* the model, or at null
InitWalk ==
    /\ InitLangact
    /\ ~delivery.on
    /\ fiberRoot = NoFiber
    /\ InitCommandBar
    /\ tree \in Fibers
    /\ extracted = NoExtract
    /\ walked = NoWalk
    /\ InitLocal

\* fiberToComponentTree(fiberNode), fiberNode being node n of the tree or null
Walk(n) ==
    /\ walked' = [tree |-> tree, from |-> n,
                  componentTree |-> fiberToComponentTree(tree, n), done |-> TRUE]
    /\ UNCHANGED <<tree, extracted>>
    /\ UNCHANGED <<langactVars, commandBarVars, localVars>>

NextWalk == \E n \in 0..Len(tree.node) : Walk(n)

SpecWalk == InitWalk /\ [][NextWalk]_vars

\* A component declares an action: registerAction(action)
RegisterAction(action) ==
    /\ Len(actions) <= Cardinality(AiActionIds)
    /\ actions' = registerAction(actions, action)
    /\ regOp' = [op |-> "register", id |-> action.id, action |-> action, before |-> actions]
    /\ localRun' = NoRun
    /\ UNCHANGED <<localQuery, localStatus, hookUsers>>
    /\ UNCHANGED <<langactVars, commandBarVars, extractVars>>

\* A component withdraws an id: unregisterAction(id)
UnregisterAction(id) ==
    /\ actions' = unregisterAction(actions, id)
    /\ regOp' = [op |-> "unregister", id |-> id, action |-> NoBestAction.action, before |-> actions]
    /\ localRun' = NoRun
    /\ UNCHANGED <<localQuery, localStatus, hookUsers>>
    /\ UNCHANGED <<langactVars, commandBarVars, extractVars>>

\* The user edits the input of the local command bar
LocalType(command) ==
    /\ command # localQuery
    /\ localQuery' = command
    /\ UNCHANGED <<actions, localStatus, localRun, regOp, hookUsers>>
    /\ UNCHANGED <<langactVars, commandBarVars, extractVars>>

\* handleSubmit of the local command bar: findAndExecuteAction(query)
LocalSubmit ==
    LET r == findAndExecuteAction(actions, localQuery, localStatus, localQuery)
    IN  /\ localStatus' = r.status
        /\ localQuery' = r.query
        /\ localRun' = [ran |-> r.ran, command |-> localQuery, entries |-> actions,
                        calls |-> r.calls, queryAfter |-> r.query, raised |-> r.raised]
        /\ regOp' = NoRegOp
        /\ UNCHANGED <<actions, hookUsers>>
        /\ UNCHANGED <<langactVars, commandBarVars, extractVars>>

\* The Registration Context and the local command bar
InitLocalSpec ==
    /\ InitLangact
    /\ ~delivery.on
    /\ fiberRoot = NoFiber
    /\ InitCommandBar
    /\ tree = NoFiber
    /\ extracted = NoExtract
    /\ walked = NoWalk
    /\ InitLocal

NextLocal ==
    \/ \E action \in AiActions : RegisterAction(action)
    \/ \E id \in AiActionIds : UnregisterAction(id)
    \/ \E command \in Edits(localQuery) : LocalType(command)
    \/ LocalSubmit

SpecLocal == InitLocalSpec /\ [][NextLocal]_vars

\* The components that use the hook, and the action each passes to it: two of
\* them declare the same id
HookUsers == {"AddButton", "AddMenuItem", "DeleteButton"}
HookAction(component) ==
    CASE component = "AddButton" ->
           [id |-> "add", description |-> <<"A", "b">>, handler |-> Fn("addTask", <<"(", ")">>, FALSE)]
      [] component = "AddMenuItem" ->
           [id |-> "add", description |-> <<"b", "a">>, handler |-> Fn("failing", <<"(", ")">>, TRUE)]
      [] component = "DeleteButton" ->
           [id |-> "del", description |-> <<"a">>, handler |-> Fn("deleteTask", <<"(", ")">>, FALSE)]

\* The effect of useAiAction: registerAction(action)
useAiActionEffect(prevActions, action) == registerAction(prevActions, action)

\* The cleanup the effect returns: unregisterAction(action.id)
useAiActionCleanup(prevActions, action) == unregisterAction(prevActions, action.id)

\* A component using the hook mounts: its effect runs
HookMount(component) ==
    /\ component \notin hookUsers
    /\ hookUsers' = hookUsers \cup {component}
    /\ actions' = useAiActionEffect(actions, HookAction(component))
    /\ regOp' = [op |-> "register", id |-> HookAction(component).id,
                 action |-> HookAction(component), before |-> actions]
    /\ localRun' = NoRun
    /\ UNCHANGED <<localQuery, localStatus>>
    /\ UNCHANGED <<langactVars, commandBarVars, extractVars>>

\* A mounted component renders with an action object of a new identity: the
\* effect's dependencies changed, so its cleanup runs and then the effect, and
\* the two updates of the Map are applied in that order
HookRerender(component) ==
    /\ component \in hookUsers
    /\ actions' = useAiActionEffect(useAiActionCleanup(actions, HookAction(component)),
                                    HookAction(component))
    /\ regOp' = [op |-> "register", id |-> HookAction(component).id,
                 action |-> HookAction(component),
                 before |-> useAiActionCleanup(actions, HookAction(component))]
    /\ localRun' = NoRun
    /\ UNCHANGED <<localQuery, localStatus, hookUsers>>
    /\ UNCHANGED <<langactVars, commandBarVars, extractVars>>

\* A mounted component unmounts: the cleanup of its effect runs
HookUnmount(component) ==
    /\ component \in hookUsers
    /\ hookUsers' = hookUsers \ {component}
    /\ actions' = useAiActionCleanup(actions, HookAction(component))
    /\ regOp' = [op |-> "unregister", id |-> HookAction(component).id,
                 action |-> HookAction(component), before |-> actions]
    /\ localRun' = NoRun
    /\ UNCHANGED <<localQuery, localStatus>>
    /\ UNCHANGED <<langactVars, commandBarVars, extractVars>>

\* Components using the hook under one provider, and the local command bar
NextHooks ==
    \/ \E component \in HookUsers : HookMount(component)
    \/ \E component \in HookUsers : HookRerender(component)
    \/ \E component \in HookUsers : HookUnmount(component)
    \/ \E command \in Edits(localQuery) : LocalType(command)
    \/ LocalSubmit

SpecHooks == InitLocalSpec /\ [][NextHooks]_vars

(***************************************************************************)
(* The claims.                                                             *)
(***************************************************************************)

\* C1: debounce coalescing.  A burst is a run of qualifying notifications each
\* of which arrives before the timer armed by the one before it has fired.  At
\* most one timer is armed at any time; while the latest notification's timer
\* is pending it is the only armed timer and no pass has run for the burst;
\* once it has fired exactly one pass has run for the whole burst.  (A cleanup
\* of the observer effect cancels the pending timer and ends the burst.)
DebounceCoalescing ==
    /\ Cardinality(timers) <= 1
    /\ burst.size >= 1 =>
         /\ burst.passes <= 1
         /\ burst.open => (timers = {burst.armed} /\ burst.passes = 0)
         /\ (~burst.open /\ ~burst.cancelled) => (burst.passes = 1 /\ timers = {})
         /\ burst.cancelled => (burst.passes = 0 /\ timers = {})

\* C1 witness: a burst of two or more notifications got its single pass
BurstOfTwoCoalesced ==
    burst.size >= 2 /\ burst.passes = 1 /\ ~burst.open /\ lastPass.cause = "timer"

\* C2: teardown.  Once the scope is disposed the observer is disconnected and
\* no timer is armed, no pass has run since the disposal and the three
\* artifacts are the ones the disposal found.
TeardownStopsReindexing ==
    scope = "disposed" =>
        /\ ~observing
        /\ timers = {}
        /\ passes = disposal.passes
        /\ actionRegistry = disposal.actionRegistry
        /\ llmActionMap = disposal.llmActionMap
        /\ semanticStructure = disposal.semanticStructure

\* C2 witness: the scope was disposed while a debounce timer was pending, and
\* the tree has changed under the artifacts the disposal found
DisposedWithPendingTimer ==
    /\ scope = "disposed"
    /\ burst.cancelled
    /\ burst.size >= 1
    /\ lastPass.cause = "mount"

\* The three artifacts of one context value come from one pass, and the map
\* mirrors the registry
SamePass(ctx) ==
    /\ ctx.stamp.reg = ctx.stamp.map
    /\ ctx.stamp.map = ctx.stamp.sem
    /\ DOMAIN ctx.llmActionMap = DOMAIN ctx.actionRegistry
    /\ \A id \in DOMAIN ctx.actionRegistry :
         /\ ctx.llmActionMap[id].description = ctx.actionRegistry[id].description
         /\ ctx.llmActionMap[id].component = ctx.actionRegistry[id].component
         /\ ctx.llmActionMap[id].event = ctx.actionRegistry[id].event
         /\ ctx.llmActionMap[id].path = ctx.actionRegistry[id].path

\* C3: atomic replacement.  The context value of every render, and the one a
\* running sendQueryToLLM closed over, holds a registry, a map and a semantic
\* structure of the same pass; the map has the registry's keys and, per id,
\* its description, component, event and path.
AtomicReplacement ==
    /\ SamePass([actionRegistry |-> actionRegistry, llmActionMap |-> llmActionMap,
                 semanticStructure |-> semanticStructure, stamp |-> stamp])
    /\ SamePass(context)

\* C3 witness: a consumer holds the artifacts of an older pass while a later
\* pass has replaced a non-empty registry by another non-empty one
ConsumerHoldsOlderPass ==
    /\ pc # "idle"
    /\ context.stamp.reg >= 1
    /\ context.stamp.reg < stamp.reg
    /\ DOMAIN context.actionRegistry # {}
    /\ DOMAIN actionRegistry # {}
    /\ DOMAIN actionRegistry # DOMAIN context.actionRegistry

\* C4: absent root.  After a pass that found no fiber root the registry and
\* the map are empty and the semantic structure is absent.
AbsentRootClears ==
    (passes >= 1 /\ lastPass.absentRoot) =>
        /\ DOMAIN actionRegistry = {}
        /\ DOMAIN llmActionMap = {}
        /\ ~semanticStructure.present

\* C4 witness: a pass without a root ran over a non-empty registry
AbsentRootAfterActions ==
    passes >= 2 /\ lastPass.absentRoot /\ lastPass.hadActions

\* C5: the ids of one pass are dense from action_0.  The registry of a pass
\* over a tree with k on-prefixed function props has exactly the keys
\* action_0 .. action_(k-1), and every entry's id is its key; this holds of
\* every pass, the first and the later ones.
IdsDenseFromZero ==
    /\ DOMAIN extracted.reg = {ActionKey(i) : i \in 0..(HandlerCount(extracted.tree) - 1)}
    /\ \A key \in DOMAIN extracted.reg : extracted.reg[key].id = key

\* C5 witness: a second pass, over a tree of several handlers, after a first
\* pass that created actions too
SecondPassOverHandlers ==
    /\ extracted.pass >= 2
    /\ HandlerCount(extracted.tree) >= 2
    /\ Cardinality(DOMAIN extracted.reg) >= 2

\* The content of the latest resolved response, trimmed and parsed
ParsedContent == JsonParse(TrimLexemes(outcome.data.content))

\* The latest submission got a response body with a non-empty content
ResolvedWithContent ==
    /\ pc = "idle"
    /\ outcome.how = "resolved"
    /\ outcome.data.kind = "content"
    /\ Len(outcome.data.content) > 0

ExtractedId ==
    IF outcome.data.kind = "content" /\ Len(outcome.data.content) > 0
      THEN ExtractAction(outcome.data.content).actionId
    ELSE Str("")

\* C7: no-match outcomes.  An extracted id "none" ends in the no-suitable-action
\* status; an empty id, or one that is no key of the registry, ends in the
\* did-not-return-a-valid-action-id status; neither calls a handler.
NoMatchOutcomes ==
    (pc = "idle" /\ outcome.how = "resolved" /\ outcome.data.kind # "null") =>
        /\ (ExtractedId.t = "string" /\ ExtractedId.v = "none")
             => (status = NoSuitable /\ calls = <<>>)
        /\ ( /\ ~(ExtractedId.t = "string" /\ ExtractedId.v = "none")
             /\ \/ ~Truthy(ExtractedId)
                \/ ToJsString(ExtractedId) \notin DOMAIN context.actionRegistry )
             => (status = InvalidId /\ calls = <<>>)

\* C8: parse-failure fallback.  When the content is no JSON, the trimmed content
\* without its double quotes is the id and the parameters are empty: a key of
\* the registry is called without arguments, "none" ends in the
\* no-suitable-action status, anything else in the did-not-return-a-valid-id
\* status.
ParseFailureFallback ==
    (ResolvedWithContent /\ ~ParsedContent.ok) =>
        LET id == Join(StripQuotes(TrimLexemes(outcome.data.content)), "")
        IN  IF id \in DOMAIN context.actionRegistry
              THEN calls = <<[key |-> id, fn |-> context.actionRegistry[id].execute,
                              args |-> <<>>]>>
            ELSE IF id = "none" THEN status = NoSuitable /\ calls = <<>>
            ELSE status = InvalidId /\ calls = <<>>

\* C9: never left loading.  Whatever way the round trip of a submission ended,
\* loading is false and the status is the last one set, not the thinking
\* status; after a non-success HTTP status it is the API error carrying the
\* response's status text, and no handler was called.
NeverStaysLoading ==
    /\ pc = "idle" => ~loading
    /\ (pc = "idle" /\ outcome.how # "none") =>
         /\ status # Thinking
         /\ status = statuses[Len(statuses)]
         /\ statuses[1] = Thinking
    /\ (pc = "idle" /\ outcome.how = "http") =>
         /\ status = Status("LLM API error: ", outcome.text)
         /\ calls = <<>>

\* C9 witness: a response body of null ended the submission in the outer catch
EndedByNullBody ==
    /\ pc = "idle"
    /\ outcome.how = "resolved"
    /\ outcome.data.kind = "null"
    /\ status.msg = "Error: "
    /\ ~loading

\* C10: invocation failure.  When the called handler raises, the status is the
\* execution error (not the executing status), loading is false, the promise of
\* sendQueryToLLM does not reject and the three artifacts are as before.
InvocationFailureCaught ==
    (pc = "idle" /\ outcome.how = "resolved" /\ Len(calls) = 1 /\ calls[1].fn.raises) =>
        /\ status = ExecutionError("Error: " \o calls[1].fn.name)
        /\ statuses[Len(statuses)].msg # "Executing action: "
        /\ ~loading
        /\ ~outcome.rejected
        /\ outcome.kept

\* C10 witness: a handler that raises was called
RaisingHandlerCalled ==
    /\ pc = "idle"
    /\ outcome.how = "resolved"
    /\ Len(calls) = 1
    /\ calls[1].fn.raises
    /\ DOMAIN actionRegistry # {}

\* C11: at most one remote request is outstanding.  While a submission is
\* pending loading is true and the input is disabled, so an Enter pressed
\* meanwhile issues no second request, and a submission calls at most one
\* handler; the next request is issued only after the pending one has finished.
SingleOutstandingRequest ==
    /\ requests.outstanding <= 1
    /\ loading <=> requests.outstanding = 1
    /\ loading <=> pc # "idle"
    /\ Len(calls) <= 1
    /\ (loading /\ requests.refused) => (calls = <<>> /\ statuses[1] = Thinking)

\* C11 witness: Enter was pressed while the submission was pending, and the
\* submission then finished with its one handler call
RefusedWhilePending ==
    /\ requests.refused
    /\ requests.outstanding = 0
    /\ pc = "idle"
    /\ Len(calls) = 1

\* The words of a command: its maximal runs of non-whitespace characters,
\* lower-cased, each by the position it starts at
WordStarts(command) ==
    {i \in 1..Len(command) : ~IsSpace(command[i]) /\ (i = 1 \/ IsSpace(command[i - 1]))}
WordAt(command, i) ==
    LET last == CHOOSE j \in i..Len(command) :
                    /\ \A k \in i..j : ~IsSpace(command[k])
                    /\ (j = Len(command) \/ IsSpace(command[j + 1]))
    IN  ToLowerCase(SubSeq(command, i, last))

\* The score of a description for a command: the number of the command's
\* words, repeated words counted each time, that occur in the lower-cased
\* description
WordScore(description, command) ==
    Cardinality({i \in WordStarts(command) :
                    Includes(ToLowerCase(description), WordAt(command, i))})

\* The greatest score among the entries of the latest local submission
MaxWordScore ==
    LET scores == {WordScore(localRun.entries[i].value.description, localRun.command) :
                      i \in 1..Len(localRun.entries)}
    IN  IF scores = {} THEN 0 ELSE CHOOSE m \in scores : \A n \in scores : n <= m

\* C12: local scoring selection.  When some action scores above zero an action
\* is selected, and the selected action is the first entry in iteration order
\* whose score is the maximum: no earlier entry reaches that score.
FirstMaxSelected ==
    localRun.ran =>
        /\ MaxWordScore > 0 => Len(localRun.calls) = 1
        /\ localRun.calls # <<>> =>
             \E i \in 1..Len(localRun.entries) :
                /\ localRun.entries[i].key = localRun.calls[1].id
                /\ localRun.entries[i].value.handler = localRun.calls[1].fn
                /\ WordScore(localRun.entries[i].value.description, localRun.command) = MaxWordScore
                /\ \A j \in 1..(i - 1) :
                      WordScore(localRun.entries[j].value.description, localRun.command) < MaxWordScore

\* C12 witness: two entries tie at a score above zero and the first was called
TieKeepsEarlier ==
    /\ localRun.ran
    /\ Len(localRun.entries) = 2
    /\ MaxWordScore >= 2
    /\ \A i \in 1..2 : WordScore(localRun.entries[i].value.description, localRun.command) = MaxWordScore
    /\ Len(localRun.calls) = 1
    /\ localRun.calls[1].id = localRun.entries[1].key

\* C13: local scoring no-match.  For a command with a non-whitespace character
\* none of whose words occurs in a declared description, leading and trailing
\* whitespace included, the status is the no-match status and no handler is
\* called.
ZeroScoreNoMatch ==
    (localRun.ran /\ MaxWordScore = 0) =>
        /\ localRun.calls = <<>>
        /\ localStatus = DontKnow

\* C14: the local outcome is one of two.  Either one handler is called without
\* arguments, the status is that action's description and the query is
\* cleared; or no handler is called, the status is the fixed no-match status
\* and the query keeps its value.
LocalOutcomeOneOfTwo ==
    localRun.ran =>
        \/ /\ Len(localRun.calls) = 1
           /\ localRun.calls[1].args = <<>>
           /\ \E i \in 1..Len(localRun.entries) :
                 /\ localRun.entries[i].key = localRun.calls[1].id
                 /\ localStatus = ExecutingLocal(localRun.entries[i].value.description)
           /\ localRun.queryAfter = <<>>
        \/ /\ localRun.calls = <<>>
           /\ localStatus = DontKnow
           /\ localRun.queryAfter = localRun.command

\* The actions a Map holds under an id
EntriesOf(entries, id) == {entries[i].value : i \in {j \in 1..Len(entries) : entries[j].key = id}}

\* C15: Registration Context semantics.  Every entry's key is its action's id
\* and no id has two entries; after register(a) the entry under a.id is a and
\* every other id's entry is as before; after unregister(id) that id has no
\* entry, every other id's entry is as before, and an absent id leaves the
\* Map as it was.
RegistrationSemantics ==
    /\ \A i \in 1..Len(actions) : actions[i].key = actions[i].value.id
    /\ \A id \in AiActionIds : Cardinality({i \in 1..Len(actions) : actions[i].key = id}) <= 1
    /\ regOp.op = "register" =>
         /\ EntriesOf(actions, regOp.id) = {regOp.action}
         /\ \A id \in AiActionIds \ {regOp.id} : EntriesOf(actions, id) = EntriesOf(regOp.before, id)
    /\ regOp.op = "unregister" =>
         /\ EntriesOf(actions, regOp.id) = {}
         /\ \A id \in AiActionIds \ {regOp.id} : EntriesOf(actions, id) = EntriesOf(regOp.before, id)
         /\ EntriesOf(regOp.before, regOp.id) = {} => actions = regOp.before

\* C15 witness: an id declared before is declared again with another action,
\* next to an entry of another id
DuplicateIdOverwritten ==
    /\ regOp.op = "register"
    /\ EntriesOf(regOp.before, regOp.id) # {}
    /\ EntriesOf(regOp.before, regOp.id) # {regOp.action}
    /\ Len(actions) = 2

\* The nodes on the sibling chain starting at node c, in order
RECURSIVE ChainFrom(_, _)
ChainFrom(fiber, c) ==
    IF c = 0 THEN <<>> ELSE <<c>> \o ChainFrom(fiber, fiber.node[c].sibling)

\* The children of node n, and the parent of a node other than the root
ChildrenOf(fiber, n) == ChainFrom(fiber, fiber.node[n].child)
ParentOf(fiber, n) ==
    CHOOSE m \in 1..Len(fiber.node) : \E i \in 1..Len(ChildrenOf(fiber, m)) : ChildrenOf(fiber, m)[i] = n

\* How many nodes of the same name come before node n among its parent's children
OccurrenceIndex(fiber, n) ==
    IF n = fiber.root THEN 0
    ELSE LET sibs == ChildrenOf(fiber, ParentOf(fiber, n))
             at == CHOOSE i \in 1..Len(sibs) : sibs[i] = n
         IN  Cardinality({i \in 1..(at - 1) :
                 ExtractorDisplayName(fiber.node[sibs[i]]) = ExtractorDisplayName(fiber.node[n])})

\* The label and the path the disambiguation rule gives node n
ExpectedLabel(fiber, n) ==
    IF OccurrenceIndex(fiber, n) = 0 THEN ExtractorDisplayName(fiber.node[n])
    ELSE ExtractorDisplayName(fiber.node[n]) \o "[" \o ToString(OccurrenceIndex(fiber, n)) \o "]"
RECURSIVE ExpectedPath(_, _)
ExpectedPath(fiber, n) ==
    IF n = fiber.root THEN <<ExpectedLabel(fiber, n)>>
    ELSE Append(ExpectedPath(fiber, ParentOf(fiber, n)), ExpectedLabel(fiber, n))

\* The registry entries of the latest pass that lie at node n's expected path
EntriesAt(n) ==
    {key \in DOMAIN extracted.reg :
        extracted.reg[key].path = Join(ExpectedPath(extracted.tree, n), " > ")}

\* The on-prefixed function props the extractor reads on node n
HandlersRead(fiber, n) ==
    LET IsHandler(e) == StartsWithOn(e.k) /\ e.v.t = "function"
    IN  SelectSeq(PropsSource(fiber.node[n]), IsHandler)

\* C16: path disambiguation.  Among the children of one parent the first node
\* of a name is labelled with the bare name and the one with n >= 1 earlier
\* nodes of that name with name[n], counted per parent; every action of a node
\* carries the path made of these labels from the root down.
PathsDisambiguated ==
    \A n \in 1..Len(extracted.tree.node) :
        /\ Cardinality(EntriesAt(n)) = Len(HandlersRead(extracted.tree, n))
        /\ \A key \in EntriesAt(n) :
              extracted.reg[key].component = ExtractorDisplayName(extracted.tree.node[n])

\* C16 witness: two sibling rows under a row: the first child is Row although
\* a Row was seen above it, the second is Row[1]
SiblingRowsUnderRow ==
    /\ extracted.pass >= 1
    /\ \E k1, k2 \in DOMAIN extracted.reg :
          /\ extracted.reg[k1].path = "Row > Row"
          /\ extracted.reg[k2].path = "Row > Row[1]"

\* The semanticId the stated precedence gives node n, read from the prop set
\* the extractor reads: num, index, id, key, repeated instance, empty
ClaimedSemanticId(fiber, n) ==
    LET props == PropsSource(fiber.node[n])
        Has(key) == \E i \in 1..Len(props) : props[i].k = key
        Shown(key) == "[" \o key \o "=" \o ToJsString(PropGet(props, key)) \o "]"
    IN  IF Has("num") THEN Shown("num")
        ELSE IF Has("index") THEN Shown("index")
        ELSE IF Has("id") THEN Shown("id")
        ELSE IF Has("key") THEN Shown("key")
        ELSE IF OccurrenceIndex(fiber, n) >= 1
          THEN "[instance=" \o ToString(OccurrenceIndex(fiber, n)) \o "]"
        ELSE ""

\* C17: semanticId precedence.  Every action of a node carries the semanticId
\* of the first that applies: [num=v], [index=v], [id=v], [key=v], [instance=n]
\* for a repeated instance, else the empty string; a node with a key prop and
\* none of num, index, id carries [key=v].
SemanticIdPrecedence ==
    \A n \in 1..Len(extracted.tree.node) :
        \A key \in EntriesAt(n) :
            extracted.reg[key].semanticId = ClaimedSemanticId(extracted.tree, n)

\* The nodes at and below node n: n and what child and sibling links reach
\* from its child
RECURSIVE Below(_, _)
Below(fiber, n) ==
    {n} \cup UNION {Below(fiber, ChildrenOf(fiber, n)[i]) : i \in 1..Len(ChildrenOf(fiber, n))}

\* The number of nodes of a ComponentTree
RECURSIVE TreeSize(_)
RECURSIVE SizeSum(_, _)
TreeSize(componentTree) == 1 + SizeSum(componentTree.children, 1)
SizeSum(children, i) ==
    IF i > Len(children) THEN 0 ELSE TreeSize(children[i]) + SizeSum(children, i + 1)

\* The ComponentTree node stands for raw node n: same name, same prop keys,
\* and its children stand for n's children, one each, in order
RECURSIVE StandsFor(_, _, _)
StandsFor(componentTree, fiber, n) ==
    /\ componentTree.present
    /\ componentTree.name = WalkerDisplayName(fiber.node[n])
    /\ Len(componentTree.children) = Len(ChildrenOf(fiber, n))
    /\ \A i \in 1..Len(ChildrenOf(fiber, n)) :
          StandsFor(componentTree.children[i], fiber, ChildrenOf(fiber, n)[i])

\* C18: Tree Walker shape.  The result is absent iff the start node is; else
\* every result node has one child per node of the raw node's child chain, in
\* order, and the result has as many nodes as the raw tree has at and below
\* the start node, whose own siblings are not visited.
WalkerShape ==
    walked.done =>
        /\ walked.componentTree.present <=> walked.from # 0
        /\ walked.from # 0 =>
             /\ StandsFor(walked.componentTree, walked.tree, walked.from)
             /\ TreeSize(walked.componentTree) = Cardinality(Below(walked.tree, walked.from))

\* C18 witness: a walk from the root over two children of different names
WalkOverTwoChildren ==
    /\ walked.done
    /\ walked.from = walked.tree.root
    /\ walked.from # 0
    /\ Len(walked.componentTree.children) = 2
    /\ walked.componentTree.children[1].name # walked.componentTree.children[2].name

\* The first non-empty prop set of a node in the order props, memoizedProps,
\* pendingProps
FirstNonEmpty(node) ==
    IF node.props.present /\ Len(node.props.entries) > 0 THEN node.props.entries
    ELSE IF node.memoizedProps.present /\ Len(node.memoizedProps.entries) > 0
      THEN node.memoizedProps.entries
    ELSE IF node.pendingProps.present /\ Len(node.pendingProps.entries) > 0
      THEN node.pendingProps.entries
    ELSE <<>>

\* C19: prop source selection.  The extractor creates one action per
\* on-prefixed function prop of the node's first non-empty prop set, and the
\* walker's node carries the keys of that prop set; a node with an empty
\* current prop set and a handler in its committed one still yields the action.
FirstNonEmptyPropSet ==
    /\ \A n \in 1..Len(extracted.tree.node) :
          LET IsHandler(e) == StartsWithOn(e.k) /\ e.v.t = "function"
          IN  Cardinality(EntriesAt(n))
                = Len(SelectSeq(FirstNonEmpty(extracted.tree.node[n]), IsHandler))
    /\ (walked.done /\ walked.from # 0) =>
          [i \in 1..Len(walked.componentTree.props) |-> walked.componentTree.props[i].k]
            = [i \in 1..Len(FirstNonEmpty(walked.tree.node[walked.from])) |->
                 FirstNonEmpty(walked.tree.node[walked.from])[i].k]

\* A batch qualifies: it has a child-list record, or an attribute record whose
\* target is an INPUT, BUTTON or SELECT element
Qualifies(batch) ==
    \/ \E i \in 1..Len(batch) : batch[i].type = "childList"
    \/ \E i \in 1..Len(batch) :
          batch[i].type = "attributes" /\ batch[i].tagName \in {"INPUT", "BUTTON", "SELECT"}

\* C20: qualifying-mutation filter.  A batch delivered to the connected
\* observer arms a new debounce timer iff it qualifies; a batch that does not
\* leaves the timer slot and the pending timers as they were, replaces none of
\* the three artifacts and runs no pass.
QualifyingFilter ==
    (delivery.seen /\ delivery.observed) =>
        /\ delivery.armed <=> Qualifies(delivery.batch)
        /\ delivery.kept
        /\ ~Qualifies(delivery.batch) => delivery.slotKept

\* C20 witness: two attribute records on other elements arrive while a timer
\* is pending, and leave it pending
OtherAttributesLeaveTimer ==
    /\ delivery.seen
    /\ delivery.observed
    /\ Len(delivery.batch) = 2
    /\ ~Qualifies(delivery.batch)
    /\ delivery.pending # {}
    /\ timers = delivery.pending

(***************************************************************************)
(* Remote strategy: the pass an answer is resolved against.                *)
(***************************************************************************)
\* C21: the action id of the answer is resolved against the registry of the
\* pass whose llmActionMap the request carried, whatever passes have replaced
\* the artifacts since: a handler invoked is the execute of that registry's
\* entry under the id, and the map sent is that registry's map.
ResolvedAgainstSentPass ==
    (outcome.how = "resolved" /\ calls # <<>>) =>
        /\ requests.sent.pass = context.stamp.reg
        /\ requests.sent.llmActionMap = createLLMActionMap(context.actionRegistry)
        /\ Len(calls) = 1
        /\ calls[1].key \in DOMAIN context.actionRegistry
        /\ calls[1].fn = context.actionRegistry[calls[1].key].execute

\* C21 witness: a handler was invoked after a later pass had stored another
\* handler under the same id
NewerPassReusesId ==
    /\ outcome.how = "resolved"
    /\ calls # <<>>
    /\ requests.sent.pass < stamp.reg
    /\ calls[1].key \in DOMAIN actionRegistry
    /\ actionRegistry[calls[1].key].execute # calls[1].fn

(***************************************************************************)
(* Action Extractor: whether a path stands for one node.                   *)
(***************************************************************************)
\* The latest pass made one call per node of the tree, and every entry of the
\* registry lies at the path of a call
OneCallPerNode ==
    LET v == VisitedPaths(extracted.tree)
    IN  /\ Len(v) = Len(extracted.tree.node)
        /\ \A i, j \in 1..Len(v) : v[i].node = v[j].node => i = j
        /\ \A a \in DOMAIN extracted.reg :
              \E i \in 1..Len(v) : extracted.reg[a].path = Join(v[i].path, " > ")

\* The paths of the calls of the latest pass are pairwise distinct
PathsDistinct ==
    LET v == VisitedPaths(extracted.tree)
    IN  \A i, j \in 1..Len(v) : v[i].path = v[j].path => i = j

\* The descriptions of the registry's entries are pairwise distinct
DescriptionsDistinct ==
    \A a, b \in DOMAIN extracted.reg :
        extracted.reg[a].description = extracted.reg[b].description => a = b

\* No component of the tree is named like the label of a later occurrence of
\* another: name[k], k >= 1
PlainNames(fiber) ==
    \A m, n \in 1..Len(fiber.node) : \A k \in 1..Len(fiber.node) :
        ExtractorDisplayName(fiber.node[m])
          # ExtractorDisplayName(fiber.node[n]) \o "[" \o ToString(k) \o "]"

\* C22 as stated: within one pass of createActionRegistry distinct tree nodes
\* get distinct paths, and the descriptions of the registry's actions are
\* pairwise distinct.
DistinctNodesDistinctPaths ==
    extracted.pass >= 1 => (OneCallPerNode /\ PathsDistinct /\ DescriptionsDistinct)

\* C22, amended: distinct tree nodes get distinct paths in the trees in which
\* no component's name is another component's name followed by a bracketed
\* index; the descriptions of the registry's actions are pairwise distinct in
\* every tree, a description carrying the component's name next to the path.
DistinctPathsForPlainNames ==
    extracted.pass >= 1 =>
        /\ OneCallPerNode
        /\ DescriptionsDistinct
        /\ PlainNames(extracted.tree) => PathsDistinct

\* C22 witness: a pass over a tree of plain names in which rows under two
\* different divs and two rows under one div carry actions
RowsUnderTwoDivs ==
    /\ extracted.pass >= 1
    /\ PlainNames(extracted.tree)
    /\ \E a, b \in DOMAIN extracted.reg :
          /\ extracted.reg[a].path = "div > div > Row"
          /\ extracted.reg[b].path = "div > div[1] > Row"
          /\ extracted.reg[a].event = extracted.reg[b].event

(***************************************************************************)
(* Registration Context: the components that use useAiAction.              *)
(***************************************************************************)
\* C23: every mounted component that uses the hook has an entry under its
\* action id in the declared action set, whatever mounts and unmounts came
\* before, two components declaring the same id included.
MountedHookUsersRegistered ==
    \A component \in hookUsers : EntriesOf(actions, HookAction(component).id) # {}

====
